---- MODULE Spec2Model ----
(***************************************************************************)
(* analyze_opportunity (src/analyzer.py) as a sequential state machine:    *)
(* the arguments are fixed at the call, and each analysis stage of the     *)
(* function body is one action that extends the message and the insights   *)
(* mapping, or raises.                                                     *)
(*                                                                         *)
(* Representation                                                          *)
(*   - an optional list argument is a record [none, items]: none = TRUE is *)
(*     Python's None, otherwise items is the list;                         *)
(*   - a title is [none, words]: the \b\w+\b tokens of the text in order   *)
(*     (before lower-casing), or None;                                     *)
(*   - a recency text is [none, empty, nums, units]: the digit runs of the *)
(*     text in order and the unit keywords its lower-cased text contains;  *)
(*   - an article date is [kind, day]: what pd.to_datetime makes of it;    *)
(*   - the message is the sequence of its fragments, the first being the   *)
(*     category template; each later fragment is what the code appends     *)
(*     after a "\n\n" separator;                                           *)
(*   - insights is a function from key to value; values rounded to one     *)
(*     decimal are held in tenths, values rounded to two decimals in       *)
(*     hundredths, unrounded quotients as [num, den];                      *)
(*   - demand_score is held in whole points, times in minutes or days.     *)
(***************************************************************************)
EXTENDS Integers, Sequences, FiniteSets, TLC

VARIABLES demand_score, video_count, total_views, video_titles, channel_names,
          published_times, video_views_list, article_count, article_titles,
          article_sources, article_dates,
          now, pc, exc, opportunity_message, insights,
          hash_seed, prev, other,
          yt, news, ai,
          app

args == <<demand_score, video_count, total_views, video_titles, channel_names,
          published_times, video_views_list, article_count, article_titles,
          article_sources, article_dates>>

\* The interpreter the call runs in: the seed of its string hashes, the call
\* that returned before this one and the call of another thread that is
\* waiting for the interpreter.
process == <<hash_seed, prev, other>>

\* The calls of the three collaborators that have locals of their own:
\* fetch_youtube_videos, fetch_google_news and generate_ai_recommendations,
\* and the run of app.py that calls them.
collaborators == <<yt, news, ai, app>>

\* All that a call of analyze_opportunity reads or writes.
analysis == <<args, now, pc, exc, opportunity_message, insights, process>>

vars == <<analysis, collaborators>>

\* ------------------------------------------------------------------ bounds

\* Longest list argument drawn.
MaxLen == 3

\* Largest small video / article count drawn beside the threshold values.
MaxCount == 6

\* ------------------------------------------------------- Python values

NoneList == [none |-> TRUE, items |-> <<>>]

List(s) == [none |-> FALSE, items |-> s]

\* Python truthiness of an optional list: None and [] are both false.
Truthy(l) == ~l.none /\ Len(l.items) > 0

Ratio(n, d) == [num |-> n, den |-> d]

IsZero(r) == r.num = 0

Frag(tag, nums, words) == [tag |-> tag, nums |-> nums, words |-> words]

\* Whether the text of a fragment begins with "\n\n": every text appended with
\* += does, the five templates assigned in the decision chain do not.
StartsWithBlankLine(tag) ==
    tag \notin {"No Data", "Golden Opportunity", "Crowded Market", "No Opportunity",
                "Moderate Opportunity"}

\* insights[k] = v
SetKey(ins, k, v) == (k :> v) @@ ins

Has(ins, k) == k \in DOMAIN ins

\* Python's round() on a non-negative quotient n/d: nearest, ties to even.
RoundHalfEven(n, d) ==
    LET q == n \div d
        r == n % d
    IN  IF 2 * r < d THEN q
        ELSE IF 2 * r > d THEN q + 1
        ELSE IF q % 2 = 0 THEN q ELSE q + 1

RECURSIVE Insert(_, _)
Insert(x, s) ==
    IF s = <<>> THEN <<x>>
    ELSE IF x <= Head(s) THEN <<x>> \o s
    ELSE <<Head(s)>> \o Insert(x, Tail(s))

RECURSIVE Sorted(_)
Sorted(s) == IF s = <<>> THEN <<>> ELSE Insert(Head(s), Sorted(Tail(s)))

\* Median2 on the list as given, without sorting it.
Median2Unsorted(items) ==
    LET n == Len(items)
    IN  IF n % 2 = 1 THEN 2 * items[(n + 1) \div 2]
        ELSE items[n \div 2] + items[n \div 2 + 1]

\* np.median of a non-empty list, doubled (so that it stays an integer).
Median2(items) ==
    LET s == Sorted(items)
        n == Len(s)
    IN  IF n % 2 = 1 THEN 2 * s[(n + 1) \div 2]
        ELSE s[n \div 2] + s[n \div 2 + 1]

\* median_views, doubled: 0 when the views list is None or empty.
median_views2 == IF Truthy(video_views_list) THEN Median2(video_views_list.items) ELSE 0

total_content_count == video_count + article_count

\* avg_views_per_video < k and > k, on the unrounded quotient (0 without videos).
AvgLess(tv, vc, k) == IF vc > 0 THEN tv < k * vc ELSE 0 < k

AvgMore(tv, vc, k) == IF vc > 0 THEN tv > k * vc ELSE 0 > k

\* ------------------------------------------------------------ stage 1

BasicInsights ==
    LET tc == total_content_count
        i1 == SetKey(<<>>, "average_views_per_video",
                     IF video_count > 0 THEN RoundHalfEven(total_views, video_count) ELSE 0)
        i2 == SetKey(i1, "demand_score", demand_score)
        i3 == SetKey(i2, "video_count", video_count)
        i4 == SetKey(i3, "total_views", total_views)
        i5 == SetKey(i4, "median_views", median_views2 \div 2)
        i6 == SetKey(i5, "article_count", article_count)
        i7 == SetKey(i6, "total_content_count", tc)
    IN  i7

\* round(video_count / total * 100, 1), in tenths of a percent.
VideoPercentage(vc, tc) == RoundHalfEven(1000 * vc, tc)

\* ArticlePercentage cut to a whole percent instead of rounded to one decimal.
ArticlePercentageTruncated(ac, tc) == 10 * ((100 * ac) \div tc)


ArticlePercentage(ac, tc) == RoundHalfEven(1000 * ac, tc)

\* The label is decided on the unrounded video share.
\* ContentDiversity with the 40% and 60% bounds excluded from "Balanced".
ContentDiversityExclusive(vc, tc) ==
    IF tc > 0
    THEN IF 40 * tc < 100 * vc /\ 100 * vc < 60 * tc THEN "Balanced"
         ELSE IF 100 * vc > 60 * tc THEN "Video-dominated"
         ELSE "Article-dominated"
    ELSE "No content"

ContentDiversity(vc, tc) ==
    IF tc > 0
    THEN IF 40 * tc <= 100 * vc /\ 100 * vc <= 60 * tc THEN "Balanced"
         ELSE IF 100 * vc > 60 * tc THEN "Video-dominated"
         ELSE "Article-dominated"
    ELSE "No content"

DiversityInsights(ins) ==
    LET tc == total_content_count
        vp == IF tc > 0 THEN VideoPercentage(video_count, tc) ELSE 0
        ap == IF tc > 0 THEN ArticlePercentage(article_count, tc) ELSE 0
    IN  SetKey(SetKey(SetKey(ins, "video_percentage", vp), "article_percentage", ap),
               "content_diversity", ContentDiversity(video_count, tc))

Stage1 ==
    /\ pc = "basic"
    /\ insights' = DiversityInsights(BasicInsights)
    /\ pc' = "decision"
    /\ UNCHANGED <<args, now, process, collaborators, exc, opportunity_message>>

\* ------------------------------------------------------------ stage 2

\* OpportunityType with "No Data" given on a demand of 0 alone.
OpportunityTypeNoDataOnDemand(d, tc, tv, vc) ==
    IF d = 0 THEN "No Data"
    ELSE IF d > 70 /\ tc <= 15 /\ tv < 2000000 /\ AvgLess(tv, vc, 100000)
         THEN "Golden Opportunity"
    ELSE IF d > 70 /\ (tc > 30 \/ tv > 10000000 \/ AvgMore(tv, vc, 500000))
         THEN "Crowded Market"
    ELSE IF d < 30 THEN "No Opportunity"
    ELSE "Moderate Opportunity"

\* OpportunityType with the low-demand rule tested before the no-data rule.
OpportunityTypeLowDemandFirst(d, tc, tv, vc) ==
    IF d < 30 THEN "No Opportunity"
    ELSE IF d = 0 /\ tc = 0 THEN "No Data"
    ELSE IF d > 70 /\ tc <= 15 /\ tv < 2000000 /\ AvgLess(tv, vc, 100000)
         THEN "Golden Opportunity"
    ELSE IF d > 70 /\ (tc > 30 \/ tv > 10000000 \/ AvgMore(tv, vc, 500000))
         THEN "Crowded Market"
    ELSE "Moderate Opportunity"


OpportunityType(d, tc, tv, vc) ==
    IF d = 0 /\ tc = 0 THEN "No Data"
    ELSE IF d > 70 /\ tc <= 15 /\ tv < 2000000 /\ AvgLess(tv, vc, 100000)
         THEN "Golden Opportunity"
    ELSE IF d > 70 /\ (tc > 30 \/ tv > 10000000 \/ AvgMore(tv, vc, 500000))
         THEN "Crowded Market"
    ELSE IF d < 30 THEN "No Opportunity"
    ELSE "Moderate Opportunity"

Stage2 ==
    /\ pc = "decision"
    /\ LET t == OpportunityType(demand_score, total_content_count, total_views, video_count)
       IN  /\ opportunity_message' = <<Frag(t, <<>>, <<>>)>>
           /\ insights' = SetKey(insights, "opportunity_type", t)
    /\ pc' = "diversity"
    /\ UNCHANGED <<args, now, process, collaborators, exc>>

\* ------------------------------------------------------------ stage 3

\* The fragment of the diversity annotation, or <<>>: the 80% thresholds are
\* applied to the rounded percentages stored in insights.
DiversityFragment(ins, tc) ==
    IF tc > 0
    THEN IF ins["content_diversity"] = "Video-dominated" /\ ins["video_percentage"] > 800
         THEN <<Frag("diversity-video", <<RoundHalfEven(ins["video_percentage"], 10)>>, <<>>)>>
         ELSE IF ins["content_diversity"] = "Article-dominated" /\ ins["article_percentage"] > 800
         THEN <<Frag("diversity-article", <<RoundHalfEven(ins["article_percentage"], 10)>>, <<>>)>>
         ELSE IF ins["content_diversity"] = "Balanced"
         THEN <<Frag("diversity-balanced", <<>>, <<>>)>>
         ELSE <<>>
    ELSE <<>>

\* Stage3 with the annotation put before the template.
Stage3Prepends ==
    /\ pc = "diversity"
    /\ opportunity_message' = DiversityFragment(insights, total_content_count) \o opportunity_message
    /\ pc' = "engagement"
    /\ UNCHANGED <<args, now, process, collaborators, exc, insights>>

Stage3 ==
    /\ pc = "diversity"
    /\ opportunity_message' = opportunity_message \o DiversityFragment(insights, total_content_count)
    /\ pc' = "engagement"
    /\ UNCHANGED <<args, now, process, collaborators, exc, insights>>

\* ------------------------------------------------------------ stage 4

\* HasGoldenPhrase looking for "فرصة" alone, which the templates of "No
\* Opportunity" and "Moderate Opportunity" hold as well.
HasGoldenPhraseShortened(msg) ==
    \E i \in 1..Len(msg) :
        msg[i].tag \in {"Golden Opportunity", "No Opportunity", "Moderate Opportunity"}

\* "فرصة ذهبية" in opportunity_message: of all fragments appended so far only
\* the Golden Opportunity template holds the phrase.
HasGoldenPhrase(msg) == \E i \in 1..Len(msg) : msg[i].tag = "Golden Opportunity"

\* demand_score > 50 and 0 < median_views < 20_000, on the unrounded median.
LowEngagement(d, m2) == d > 50 /\ m2 > 0 /\ m2 < 2 * 20000

Stage4 ==
    /\ pc = "engagement"
    /\ IF LowEngagement(demand_score, median_views2)
       THEN /\ insights' = SetKey(insights, "low_engagement_warning", TRUE)
            /\ opportunity_message' = opportunity_message \o
                 <<Frag(IF HasGoldenPhrase(opportunity_message)
                        THEN "low-engagement-caveat" ELSE "low-engagement-warning",
                        <<insights["average_views_per_video"]>>, <<>>)>>
       ELSE UNCHANGED <<insights, opportunity_message>>
    /\ pc' = "titles"
    /\ UNCHANGED <<args, now, process, collaborators, exc>>

\* ------------------------------------------------------------ stage 5

\* str.lower() on the tokens of the vocabulary.
Lower(w) == IF w = "Python" THEN "python" ELSE w

\* len() of a lower-cased token of the vocabulary.
WordLen(w) ==
    CASE w = "python" -> 6
      [] w = "java" -> 4
      [] w = "great" -> 5
      [] w = "bad" -> 3
      [] w = "the" -> 3
      [] w = "go" -> 2
      [] OTHER -> 4

\* The members of the stopwords set that the vocabulary can produce.
IsStopword(w) == w \in {"the", "a", "an", "is", "of", "in", "to", "for", "and", "or",
                        "how", "what", "where", "why", "who", "with", "2024", "2025",
                        "tutorial", "guide", "learn", "best", "top", "review", "new",
                        "free", "vs"}

RECURSIVE AllWords(_)
\* all_words: the lower-cased tokens of every title, in order.
AllWords(titles) ==
    IF titles = <<>> THEN <<>>
    ELSE [i \in 1..Len(Head(titles).words) |-> Lower(Head(titles).words[i])]
         \o AllWords(Tail(titles))

IsMeaningful(w) == ~IsStopword(w) /\ WordLen(w) > 2

MeaningfulWords(titles) == SelectSeq(AllWords(titles), IsMeaningful)

\* Counter(words)[w]: the number of occurrences of w.
Count(w, words) == Cardinality({i \in 1..Len(words) : words[i] = w})

RECURSIVE Distinct(_)
\* The keys of Counter(words), in insertion (first occurrence) order.
Distinct(words) ==
    IF words = <<>> THEN <<>>
    ELSE LET rest == Distinct(SubSeq(words, 1, Len(words) - 1))
             w == words[Len(words)]
         IN  IF \E i \in 1..Len(rest) : rest[i] = w THEN rest ELSE rest \o <<w>>

RECURSIVE InsertByCount(_, _)
\* Stable insertion into a list ordered by non-increasing count.
InsertByCount(e, s) ==
    IF s = <<>> THEN <<e>>
    ELSE IF e[2] > Head(s)[2] THEN <<e>> \o s
    ELSE <<Head(s)>> \o InsertByCount(e, Tail(s))

RECURSIVE SortByCount(_)
SortByCount(s) ==
    IF s = <<>> THEN <<>>
    ELSE InsertByCount(s[Len(s)], SortByCount(SubSeq(s, 1, Len(s) - 1)))

\* MostCommon without the ordering by count: the first n keys as inserted.
MostCommonAsInserted(words, n) ==
    LET keys == Distinct(words)
        all == [i \in 1..Len(keys) |-> <<keys[i], Count(keys[i], words)>>]
    IN  SubSeq(all, 1, IF Len(all) < n THEN Len(all) ELSE n)

\* Counter(words).most_common(n): by non-increasing count, equal counts in
\* insertion order.
MostCommon(words, n) ==
    LET keys == Distinct(words)
        all == SortByCount([i \in 1..Len(keys) |-> <<keys[i], Count(keys[i], words)>>])
    IN  SubSeq(all, 1, IF Len(all) < n THEN Len(all) ELSE n)

\* count >= video_count * 0.6
IsRepetitive(count, vc) == 10 * count >= 6 * vc

\* [word for word, count in word_counts.items() if count >= video_count * 0.6]
RepetitiveWords(words, vc) ==
    LET Rep(w) == IsRepetitive(Count(w, words), vc)
    IN  SelectSeq(Distinct(words), Rep)

\* title.lower() raises AttributeError on a None title.
TitlesRaise(titles) == \E i \in 1..Len(titles) : titles[i].none

Stage5 ==
    /\ pc = "titles"
    /\ IF Truthy(video_titles) /\ video_count > 1
       THEN IF TitlesRaise(video_titles.items)
            THEN /\ pc' = "raised"
                 /\ exc' = "AttributeError"
                 /\ UNCHANGED <<insights, opportunity_message>>
            ELSE LET words == MeaningfulWords(video_titles.items)
                     rep == RepetitiveWords(words, video_count)
                     i1 == SetKey(insights, "most_frequent_keywords", MostCommon(words, 5))
                 IN  /\ IF rep # <<>>
                        THEN /\ insights' = SetKey(SetKey(i1, "title_repetition_detected", TRUE),
                                                   "repetitive_words", rep)
                             /\ opportunity_message' = opportunity_message \o
                                  <<Frag("title-repetition", <<>>,
                                         SubSeq(rep, 1, IF Len(rep) < 3 THEN Len(rep) ELSE 3))>>
                        ELSE /\ insights' = SetKey(i1, "title_repetition_detected", FALSE)
                             /\ UNCHANGED opportunity_message
                     /\ pc' = "channels"
                     /\ UNCHANGED exc
       ELSE /\ insights' = SetKey(SetKey(insights, "most_frequent_keywords", <<>>),
                                  "title_repetition_detected", FALSE)
            /\ pc' = "channels"
            /\ UNCHANGED <<exc, opportunity_message>>
    /\ UNCHANGED <<args, now, process, collaborators>>

\* ------------------------------------------------------------ stage 6

\* len(set(channel_names))
NumUnique(items) == Cardinality({items[i] : i \in 1..Len(items)})

\* ChannelWarning with "at most half" in place of "less than half".
ChannelWarningAtMostHalf(u, vc) ==
    IF vc > 0 /\ 2 * u <= vc /\ u > 1 THEN "channels-few"
    ELSE IF u = 1 /\ vc > 1 THEN "channels-single"
    ELSE ""

\* The channel fragment's tag, or "" when no warning is raised.
ChannelWarning(u, vc) ==
    IF vc > 0 /\ 2 * u < vc /\ u > 1 THEN "channels-few"
    ELSE IF u = 1 /\ vc > 1 THEN "channels-single"
    ELSE ""

Stage6 ==
    /\ pc = "channels"
    /\ IF Truthy(channel_names)
       THEN LET u == NumUnique(channel_names.items)
                w == ChannelWarning(u, video_count)
                i1 == SetKey(insights, "num_unique_channels", u)
            IN  /\ insights' = SetKey(i1, "channel_monopolization_warning", w # "")
                /\ opportunity_message' = opportunity_message \o
                     (IF w = "channels-few" THEN <<Frag(w, <<u, video_count>>, <<>>)>>
                      ELSE IF w = "channels-single" THEN <<Frag(w, <<>>, <<>>)>>
                      ELSE <<>>)
       ELSE /\ insights' = SetKey(SetKey(insights, "num_unique_channels", 0),
                                  "channel_monopolization_warning", FALSE)
            /\ UNCHANGED opportunity_message
    /\ pc' = "recency"
    /\ UNCHANGED <<args, now, process, collaborators, exc>>

\* ------------------------------------------------------------ stage 7

NoneText == [none |-> TRUE, empty |-> FALSE, nums |-> <<>>, units |-> {}]

\* The empty text "".
EmptyText == [none |-> FALSE, empty |-> TRUE, nums |-> <<>>, units |-> {}]

\* A recency text with the digit runs nums and the unit keywords units.
Text(nums, units) == [none |-> FALSE, empty |-> FALSE, nums |-> nums, units |-> units]

\* The if/elif chain over the unit keywords: the first keyword, in this order,
\* that the lower-cased text contains; "" when it contains none.
UnitOf(units) ==
    IF "minute" \in units THEN "minute"
    ELSE IF "hour" \in units THEN "hour"
    ELSE IF "day" \in units THEN "day"
    ELSE IF "week" \in units THEN "week"
    ELSE IF "month" \in units THEN "month"
    ELSE IF "year" \in units THEN "year"
    ELSE ""

\* The timedelta of one unit, in minutes (month = 30 days, year = 365 days).
UnitMinutes(u) ==
    CASE u = "minute" -> 1
      [] u = "hour" -> 60
      [] u = "day" -> 1440
      [] u = "week" -> 7 * 1440
      [] u = "month" -> 30 * 1440
      [] u = "year" -> 365 * 1440

\* parse_published_time, as the age current_date - parsed_date in minutes;
\* -1 stands for the None it returns when the text holds no number or no unit.
ParsePublishedTime(pt) ==
    IF pt.nums = <<>> THEN -1
    ELSE IF UnitOf(pt.units) = "" THEN -1
    ELSE Head(pt.nums) * UnitMinutes(UnitOf(pt.units))

\* IsRecent with "fewer than 30 days".
IsRecentStrict(age) == age \div 1440 < 30

\* (current_date - parsed_date).days <= 30: timedelta.days drops the part of a day.
IsRecent(age) == age \div 1440 <= 30

\* What parsing the text raises: pt_str.lower() on None is an AttributeError,
\* current_date - timedelta(...) before year 1 is an OverflowError; "" otherwise.
ParseRaises(pt, today) ==
    IF pt.none THEN "AttributeError"
    ELSE IF ParsePublishedTime(pt) > (today - 1) * 1440 THEN "OverflowError"
    ELSE ""

RECURSIVE FirstRaise(_, _)
\* The exception of the first text of the loop that raises, "" when none does.
FirstRaise(items, today) ==
    IF items = <<>> THEN ""
    ELSE IF ParseRaises(Head(items), today) # "" THEN ParseRaises(Head(items), today)
    ELSE FirstRaise(Tail(items), today)

\* recent_videos_30_days after the loop.
RecentVideos(items) ==
    Cardinality({i \in 1..Len(items) :
                   /\ ParsePublishedTime(items[i]) # -1
                   /\ IsRecent(ParsePublishedTime(items[i]))})

\* HighRecentActivity with a count of exactly 20% taken as high.
HighRecentActivityAtLeast(recent, vc) == 5 * recent >= vc

\* recent_videos_30_days > video_count * 0.2
HighRecentActivity(recent, vc) == 5 * recent > vc

Stage7 ==
    /\ pc = "recency"
    /\ IF Truthy(published_times) /\ video_count > 0
       THEN IF FirstRaise(published_times.items, now) # ""
            THEN /\ pc' = "raised"
                 /\ exc' = FirstRaise(published_times.items, now)
                 /\ UNCHANGED <<insights, opportunity_message>>
            ELSE LET recent == RecentVideos(published_times.items)
                     i1 == SetKey(insights, "recent_videos_30_days_count", recent)
                     i2 == SetKey(i1, "recent_videos_30_days_percentage",
                                  Ratio(100 * recent, video_count))
                     high == HighRecentActivity(recent, video_count)
                 IN  /\ insights' = SetKey(i2, "high_recent_activity", high)
                     /\ opportunity_message' = opportunity_message \o
                          (IF high
                           THEN <<Frag("recent-activity",
                                       <<recent, RoundHalfEven(1000 * recent, video_count)>>,
                                       <<>>)>>
                           ELSE <<>>)
                     /\ pc' = "sentiment"
                     /\ UNCHANGED exc
       ELSE /\ insights' = SetKey(SetKey(SetKey(insights,
                                "recent_videos_30_days_count", 0),
                                "recent_videos_30_days_percentage", Ratio(0, 1)),
                                "high_recent_activity", FALSE)
            /\ pc' = "sentiment"
            /\ UNCHANGED <<exc, opportunity_message>>
    /\ UNCHANGED <<args, now, process, collaborators>>

\* ------------------------------------------------------------ stage 8

\* The polarity the sentiment lexicon gives a token, in hundredths; 0 for a
\* token it does not hold.
WordPolarity(w) == IF w = "great" THEN 80 ELSE IF w = "bad" THEN -70 ELSE 0

RECURSIVE SumPolarity(_)
SumPolarity(words) ==
    IF words = <<>> THEN 0 ELSE WordPolarity(Lower(Head(words))) + SumPolarity(Tail(words))

\* TextBlob(title).sentiment.polarity against the +-0.1 thresholds: the mean
\* over the tokens the lexicon holds, 0 when it holds none.
Sentiment(title) ==
    LET n == Cardinality({i \in 1..Len(title.words) :
                            WordPolarity(Lower(title.words[i])) # 0})
        sum == SumPolarity(title.words)
    IN  IF n = 0 THEN "neutral"
        ELSE IF sum > 10 * n THEN "positive"
        ELSE IF sum < -10 * n THEN "negative"
        ELSE "neutral"

\* all_titles: the video titles, then the article titles.
AllTitles(vt, at) ==
    (IF Truthy(vt) THEN vt.items ELSE <<>>) \o (IF Truthy(at) THEN at.items ELSE <<>>)

\* video_titles after all_titles.extend(video_titles) and
\* all_titles.extend(article_titles) with the article titles appended to the
\* list of the video titles itself, as if all_titles were that list.
VideoTitlesExtendedInPlace(vt, at) ==
    IF Truthy(vt) /\ Truthy(at) THEN List(vt.items \o at.items) ELSE vt

\* video_titles after the two extend calls: extend changes the list it is
\* called on, which is all_titles, a list created empty on line 224; the
\* lists passed to it are only read.
VideoTitlesAfterExtend(vt, at) == vt

Tally(titles, class) == Cardinality({i \in 1..Len(titles) : Sentiment(titles[i]) = class})

\* OverallSentiment with a tie for the first place given to the positive, then
\* to the negative titles.
OverallSentimentOnTies(pos, neg, neu) ==
    IF pos >= neg /\ pos >= neu THEN "Positive"
    ELSE IF neg >= pos /\ neg >= neu THEN "Negative"
    ELSE "Neutral"

OverallSentiment(pos, neg, neu) ==
    IF pos > neg /\ pos > neu THEN "Positive"
    ELSE IF neg > pos /\ neg > neu THEN "Negative"
    ELSE "Neutral"

SentimentFragment(overall) ==
    CASE overall = "Positive" -> "sentiment-positive"
      [] overall = "Negative" -> "sentiment-negative"
      [] overall = "Neutral" -> "sentiment-neutral"

Stage8 ==
    /\ pc = "sentiment"
    /\ LET all == AllTitles(video_titles, article_titles)
       IN  IF all # <<>>
           THEN IF \E i \in 1..Len(all) : all[i].none
                \* TextBlob(None) raises TypeError
                THEN /\ pc' = "raised"
                     /\ exc' = "TypeError"
                     /\ UNCHANGED <<insights, opportunity_message>>
                ELSE LET pos == Tally(all, "positive")
                         neg == Tally(all, "negative")
                         neu == Tally(all, "neutral")
                         overall == OverallSentiment(pos, neg, neu)
                         i1 == SetKey(insights, "sentiment_analysis",
                                      [positive_titles |-> pos, negative_titles |-> neg,
                                       neutral_titles |-> neu, total_analyzed |-> Len(all)])
                     IN  /\ insights' = SetKey(i1, "overall_sentiment", overall)
                         /\ opportunity_message' = opportunity_message \o
                              <<Frag(SentimentFragment(overall), <<>>, <<>>)>>
                         /\ pc' = "sources"
                         /\ UNCHANGED exc
           ELSE /\ insights' = SetKey(SetKey(insights, "sentiment_analysis", <<>>),
                                      "overall_sentiment", "N/A")
                /\ pc' = "sources"
                /\ UNCHANGED <<exc, opportunity_message>>
    /\ video_titles' = VideoTitlesAfterExtend(video_titles, article_titles)
    /\ UNCHANGED <<demand_score, video_count, total_views, channel_names, published_times,
                   video_views_list, article_count, article_titles, article_sources,
                   article_dates, now, process, collaborators>>

\* ------------------------------------------------------------ stage 9

\* set(article_sources): the distinct sources.
UniqueSources(items) == {items[i] : i \in 1..Len(items)}

\* The seeds an interpreter may draw for its string hashes (PYTHONHASHSEED).
HashSeeds == {0, 1}

\* The place of a name in the table of a set, which follows from its hash and
\* so from the seed of the interpreter.
Slot(name, seed) ==
    CASE name = "A" -> IF seed = 0 THEN 1 ELSE 3
      [] name = "B" -> 2
      [] OTHER -> IF seed = 0 THEN 3 ELSE 1

\* list(S) of a set S: its elements in the order of their places.
ListOfSet(S, seed) ==
    CHOOSE l \in [1..Cardinality(S) -> S] :
        \A i \in 1..Cardinality(S) : \A j \in 1..Cardinality(S) :
            i < j => Slot(l[i], seed) < Slot(l[j], seed)

\* FewSources with a ratio of exactly 0.3 taken as few sources too.
FewSourcesAtMost(u, ac) == 10 * u <= 3 * ac /\ ac > 5

\* source_diversity_ratio < 0.3 and article_count > 5, on the unrounded ratio.
FewSources(u, ac) == 10 * u < 3 * ac /\ ac > 5

Stage9 ==
    /\ pc = "sources"
    /\ IF Truthy(article_sources)
       THEN LET srcs == UniqueSources(article_sources.items)
                u == Cardinality(srcs)
                i1 == SetKey(SetKey(insights, "news_sources_count", u), "news_sources",
                             ListOfSet(srcs, hash_seed))
            IN  IF article_count > 0
                THEN /\ insights' = SetKey(i1, "source_diversity_ratio",
                                           RoundHalfEven(100 * u, article_count))
                     /\ opportunity_message' = opportunity_message \o
                          (IF FewSources(u, article_count)
                           THEN <<Frag("few-sources", <<>>, <<>>)>> ELSE <<>>)
                ELSE /\ insights' = i1
                     /\ UNCHANGED opportunity_message
       ELSE /\ insights' = SetKey(SetKey(insights, "news_sources_count", 0),
                                  "news_sources", <<>>)
            /\ UNCHANGED opportunity_message
    /\ pc' = "dates"
    /\ UNCHANGED <<args, now, process, collaborators, exc>>

\* ----------------------------------------------------------- stage 10

\* What pd.to_datetime makes of an article's date text: "naive" is a date
\* without time zone on day `day`; "aware" one with a time zone, "none" a
\* missing date and "unparseable" a text it rejects. Only "naive" survives
\* the inner try: the others raise there and are skipped.
Date(kind, day) == [kind |-> kind, day |-> day]

\* (current_date - article_date).days <= 30
IsRecentArticle(d, today) == d.kind = "naive" /\ today - d.day <= 30

RecentArticles(items, today) ==
    Cardinality({i \in 1..Len(items) : IsRecentArticle(items[i], today)})

Stage10 ==
    /\ pc = "dates"
    /\ IF Truthy(article_dates) /\ article_count > 0
       THEN LET recent == RecentArticles(article_dates.items, now)
                pct == RoundHalfEven(1000 * recent, article_count)
                i1 == SetKey(insights, "recent_articles_30_days", recent)
            IN  /\ insights' = SetKey(i1, "recent_articles_percentage", pct)
                /\ opportunity_message' = opportunity_message \o
                     (IF pct > 500 THEN <<Frag("hot-news", <<pct>>, <<>>)>> ELSE <<>>)
       ELSE UNCHANGED <<insights, opportunity_message>>
    /\ pc' = "returned"
    /\ UNCHANGED <<args, now, process, collaborators, exc>>

\* ------------------------------------------------- the calls explored

\* Every list over S of length at most n, and None.
OptLists(S, n) == {NoneList} \cup {List(s) : s \in UNION {[1..k -> S] : k \in 0..n}}

DemandValues == {0, 10, 29, 30, 50, 51, 70, 71, 100}

SmallCounts == 0..MaxCount

CountValues == SmallCounts \cup {15, 16, 30, 31}

ArticleCountValues == {0, 1, 2, 3, 5, 15, 16, 31}

ViewTotals == {0, 5, 99999, 100000, 500001, 1999999, 2000000, 10000001}

ViewValues == {0, 1, 2, 19999, 20000}

NoneTitle == [none |-> TRUE, words |-> <<>>]

Title(words) == [none |-> FALSE, words |-> words]

TitleValues == {NoneTitle,
                Title(<<"Python", "python">>),
                Title(<<"python", "great">>),
                Title(<<"java", "the", "go">>),
                Title(<<"bad", "java">>)}

\* A title of six keywords, one of them twice.
LongTitle == Title(<<"rust", "swift", "kotlin", "scala", "ruby", "perl", "perl">>)

\* A channel or source name; a missing one (None) is a value of its own.
NameValues == {"A", "B", "None"}

\* "3 days ago", "1 month ago", "no info", "730 hours ago", "5 weeks ago",
\* "1 day 2 hours ago", "2 ago", "3000 years ago", and a missing text.
RecencyValues == {Text(<<3>>, {"day"}),
                  Text(<<1>>, {"month"}),
                  Text(<<>>, {}),
                  Text(<<730>>, {"hour"}),
                  Text(<<5>>, {"week"}),
                  Text(<<1, 2>>, {"day", "hour"}),
                  Text(<<2>>, {}),
                  Text(<<3000>>, {"year"}),
                  NoneText}

\* The day of the call, as a proleptic day number (date.toordinal()).
Today == 739000

NowValues == {Today, Today + 1}

DateValues == {Date("none", 0), Date("unparseable", 0), Date("aware", Today),
               Date("naive", Today - 31), Date("naive", Today - 30),
               Date("naive", Today + 31)}

\* No earlier call.
NoCall == [done |-> FALSE, now |-> 0, hash_seed |-> 0, pc |-> "", exc |-> "",
           opportunity_message |-> <<>>, insights |-> <<>>]

\* No call of another thread.
NoFrame == [live |-> FALSE, pc |-> "", exc |-> "", opportunity_message |-> <<>>,
            insights |-> <<>>]

\* A collaborator that is not being called.
NotCalled == [pc |-> "idle"]

Start ==
    /\ pc = "basic"
    /\ exc = ""
    /\ opportunity_message = <<>>
    /\ insights = <<>>

\* Calls that vary the scalar arguments.
InitScalars ==
    /\ demand_score \in DemandValues
    /\ video_count \in CountValues
    /\ total_views \in ViewTotals
    /\ article_count \in ArticleCountValues
    /\ video_titles = NoneList /\ channel_names = NoneList /\ published_times = NoneList
    /\ video_views_list = NoneList /\ article_titles = NoneList
    /\ article_sources = NoneList /\ article_dates = NoneList
    /\ now = Today
    /\ hash_seed = 0

\* Calls that vary the per-video views.
InitViews ==
    /\ demand_score \in {50, 51, 80}
    /\ video_count \in {0, MaxLen}
    /\ total_views \in {0, 60000}
    /\ article_count \in {0, 1}
    /\ video_views_list \in OptLists(ViewValues, MaxLen)
    /\ video_titles = NoneList /\ channel_names = NoneList /\ published_times = NoneList
    /\ article_titles = NoneList /\ article_sources = NoneList /\ article_dates = NoneList
    /\ now = Today
    /\ hash_seed = 0

\* Calls that vary the titles.
InitTitles ==
    /\ demand_score = 80
    /\ video_count \in SmallCounts
    /\ total_views = 60000
    /\ \/ /\ article_count = 0
          /\ article_titles \in {NoneList, List(<<>>)}
       \/ /\ article_count = 1
          /\ article_titles \in {List(<<Title(<<"bad", "java">>)>>), List(<<NoneTitle>>)}
    /\ video_titles \in OptLists(TitleValues, MaxLen)
    /\ channel_names = NoneList /\ published_times = NoneList
    /\ video_views_list = NoneList /\ article_sources = NoneList /\ article_dates = NoneList
    /\ now = Today
    /\ hash_seed = 0

\* Calls whose titles hold more keywords than are listed.
InitKeywords ==
    /\ demand_score = 80
    /\ video_count \in {0, 1, 2, 5}
    /\ total_views = 60000
    /\ article_count = 0
    /\ video_titles \in {List(<<LongTitle>>), List(<<LongTitle, Title(<<"bad", "java">>)>>),
                         List(<<Title(<<"python", "great">>), LongTitle, LongTitle>>)}
    /\ article_titles = NoneList
    /\ channel_names = NoneList /\ published_times = NoneList
    /\ video_views_list = NoneList /\ article_sources = NoneList /\ article_dates = NoneList
    /\ now = Today
    /\ hash_seed = 0

\* Calls that vary the channel names.
InitChannels ==
    /\ demand_score = 80
    /\ video_count \in SmallCounts
    /\ total_views = 60000
    /\ article_count = 0
    /\ channel_names \in OptLists(NameValues, MaxLen + 2)
    /\ video_titles = NoneList /\ published_times = NoneList /\ video_views_list = NoneList
    /\ article_titles = NoneList /\ article_sources = NoneList /\ article_dates = NoneList
    /\ now = Today
    /\ hash_seed = 0

\* Calls that vary the recency texts.
InitRecency ==
    /\ demand_score = 80
    /\ video_count \in 0..(MaxLen + 1)
    /\ total_views = 60000
    /\ article_count = 0
    /\ published_times \in OptLists(RecencyValues, MaxLen)
    /\ video_titles = NoneList /\ channel_names = NoneList /\ video_views_list = NoneList
    /\ article_titles = NoneList /\ article_sources = NoneList /\ article_dates = NoneList
    /\ now = Today
    /\ hash_seed = 0

\* Calls that vary the article sources and dates.
InitNews ==
    /\ demand_score = 40
    /\ video_count = 5
    /\ total_views = 60000
    /\ \/ /\ article_count \in SmallCounts \cup {10}
          /\ article_sources \in OptLists(NameValues, MaxLen)
          /\ article_dates \in {NoneList, List(<<Date("naive", Today)>>)}
          /\ now = Today
          /\ hash_seed \in HashSeeds
       \/ /\ article_count \in {0, 1, 2, 3, 6}
          /\ article_sources \in {NoneList, List(<<"A">>)}
          /\ article_dates \in OptLists(DateValues, MaxLen)
          /\ now \in NowValues
          /\ hash_seed = 0
    /\ video_titles = NoneList /\ channel_names = NoneList /\ published_times = NoneList
    /\ video_views_list = NoneList /\ article_titles = NoneList

\* Whole calls as app.main makes them: five videos and seven articles, each
\* list either omitted or given in full.
FullVideoTitles ==
    List(<<Title(<<"Python", "python">>), Title(<<"python", "great">>),
           Title(<<"python", "great">>), Title(<<"java", "the", "go">>),
           Title(<<"bad", "java">>)>>)

FullChannelNames == {List(<<"A", "A", "A", "A", "A">>), List(<<"A", "B", "A", "B", "A">>)}

FullPublishedTimes ==
    List(<<Text(<<3>>, {"day"}), Text(<<1>>, {"month"}), Text(<<>>, {}),
           Text(<<5>>, {"week"}), Text(<<730>>, {"hour"})>>)

\* Five recency texts of which one is within 30 days.
SparsePublishedTimes ==
    List(<<Text(<<5>>, {"week"}), Text(<<3>>, {"day"}), Text(<<>>, {}),
           Text(<<2>>, {"year"}), Text(<<2>>, {"month"})>>)

FullVideoViews == List(<<1, 19999, 20000, 2, 0>>)

FullArticleTitles ==
    List(<<Title(<<"bad", "java">>), Title(<<"bad", "java">>), Title(<<"python", "great">>),
           Title(<<"java", "the", "go">>), Title(<<"bad", "java">>),
           Title(<<"bad", "java">>), Title(<<"bad", "java">>)>>)

FullArticleSources == List(<<"A", "A", "B", "A", "B", "A", "A">>)

FullArticleDates ==
    List(<<Date("naive", Today), Date("naive", Today - 30), Date("naive", Today - 31),
           Date("naive", Today - 1), Date("unparseable", 0), Date("naive", Today - 2),
           Date("naive", Today - 400)>>)

InitCombined ==
    /\ demand_score \in {40, 80}
    /\ video_count = 5
    /\ total_views = 60000
    /\ article_count \in {0, 7}
    /\ video_titles \in {NoneList, FullVideoTitles}
    /\ channel_names \in {NoneList} \cup FullChannelNames
    /\ published_times \in {NoneList, FullPublishedTimes, SparsePublishedTimes}
    /\ video_views_list \in {NoneList, FullVideoViews}
    /\ article_titles \in {NoneList, FullArticleTitles}
    /\ article_sources \in {NoneList, FullArticleSources}
    /\ article_dates \in {NoneList, FullArticleDates}
    /\ now = Today
    /\ hash_seed \in HashSeeds

\* The counts whose shares lie on and next to the 80% threshold: 4 of 5 is
\* 80%, 321 of 401 is 80.05% less a little, 9 of 10 is 90%.
ShareCounts == {0, 1, 4, 5, 9, 80, 321}

\* Calls that vary the shares of videos and articles.
InitShares ==
    /\ demand_score = 40
    /\ video_count \in ShareCounts
    /\ total_views = 60000
    /\ article_count \in ShareCounts
    /\ video_titles = NoneList /\ channel_names = NoneList /\ published_times = NoneList
    /\ video_views_list = NoneList /\ article_titles = NoneList
    /\ article_sources = NoneList /\ article_dates = NoneList
    /\ now = Today
    /\ hash_seed = 0

Init ==
    /\ Start
    /\ \/ InitScalars
       \/ InitViews
       \/ InitTitles
       \/ InitKeywords
       \/ InitChannels
       \/ InitRecency
       \/ InitNews
       \/ InitCombined
       \/ InitShares
    /\ prev = NoCall
    /\ other = NoFrame
    /\ yt = NotCalled /\ news = NotCalled /\ ai = NotCalled /\ app = NotCalled

Next ==
    \/ Stage1
    \/ Stage2
    \/ Stage3
    \/ Stage4
    \/ Stage5
    \/ Stage6
    \/ Stage7
    \/ Stage8
    \/ Stage9
    \/ Stage10

Spec == Init /\ [][Next]_vars

\* ------------------------------------------- one call after another

Finished == pc \in {"returned", "raised"}

\* What a finished call has handed to its caller, and when and where it ran.
ThisCall ==
    [done |-> TRUE, now |-> now, hash_seed |-> hash_seed, pc |-> pc, exc |-> exc,
     opportunity_message |-> opportunity_message, insights |-> insights]

\* The caller calls once more with the same arguments in the same interpreter;
\* datetime.now() has stayed within the day or moved on.
CallAgain ==
    /\ Finished /\ ~prev.done /\ ~other.live
    /\ prev' = ThisCall
    /\ now' \in {t \in NowValues : t >= now}
    /\ pc' = "basic" /\ exc' = "" /\ opportunity_message' = <<>> /\ insights' = <<>>
    /\ UNCHANGED <<args, hash_seed, other, collaborators>>

\* The same, in an interpreter started anew, which draws its own hash seed.
CallAgainInNewProcess ==
    /\ Finished /\ ~prev.done /\ ~other.live
    /\ prev' = ThisCall
    /\ now' \in {t \in NowValues : t >= now}
    /\ hash_seed' \in HashSeeds
    /\ pc' = "basic" /\ exc' = "" /\ opportunity_message' = <<>> /\ insights' = <<>>
    /\ UNCHANGED <<args, other, collaborators>>

InitTwice ==
    /\ Start
    /\ \/ InitNews /\ article_count = 3
       \/ InitCombined
    /\ prev = NoCall
    /\ other = NoFrame
    /\ yt = NotCalled /\ news = NotCalled /\ ai = NotCalled /\ app = NotCalled

NextTwice ==
    \/ Stage1
    \/ Stage2
    \/ Stage3
    \/ Stage4
    \/ Stage5
    \/ Stage6
    \/ Stage7
    \/ Stage8
    \/ Stage9
    \/ Stage10
    \/ CallAgain
    \/ CallAgainInNewProcess

SpecTwice == InitTwice /\ [][NextTwice]_vars

\* ------------------------------------------- calls of two threads

\* The locals of the call that holds the interpreter.
ThisFrame ==
    [live |-> TRUE, pc |-> pc, exc |-> exc, opportunity_message |-> opportunity_message,
     insights |-> insights]

\* While a call is at its start a second thread makes the same call; it waits
\* for the interpreter.
CallConcurrently ==
    /\ pc = "basic" /\ prev.done /\ ~other.live
    /\ other' = [live |-> TRUE, pc |-> "basic", exc |-> "", opportunity_message |-> <<>>,
                 insights |-> <<>>]
    /\ UNCHANGED <<args, now, pc, exc, opportunity_message, insights, hash_seed, prev, collaborators>>

\* Switch with the message kept by the interpreter instead of by each call, as
\* if opportunity_message were a module-level variable.
SwitchSharingMessage ==
    /\ other.live
    /\ other' = ThisFrame
    /\ pc' = other.pc /\ exc' = other.exc /\ insights' = other.insights
    /\ UNCHANGED <<args, now, opportunity_message, hash_seed, prev, collaborators>>

\* The interpreter passes from one thread to the other between two stages:
\* opportunity_message, insights and the position in the body are locals of
\* the call, so each thread goes on with its own.
Switch ==
    /\ other.live
    /\ other' = ThisFrame
    /\ pc' = other.pc /\ exc' = other.exc
    /\ opportunity_message' = other.opportunity_message
    /\ insights' = other.insights
    /\ UNCHANGED <<args, now, hash_seed, prev, collaborators>>

InitThreads ==
    /\ Start
    /\ InitCombined /\ demand_score = 80
    /\ prev = NoCall
    /\ other = NoFrame
    /\ yt = NotCalled /\ news = NotCalled /\ ai = NotCalled /\ app = NotCalled

NextThreads ==
    \/ Stage1
    \/ Stage2
    \/ Stage3
    \/ Stage4
    \/ Stage5
    \/ Stage6
    \/ Stage7
    \/ Stage8
    \/ Stage9
    \/ Stage10
    \/ CallAgain
    \/ CallConcurrently
    \/ Switch

SpecThreads == InitThreads /\ [][NextThreads]_vars

\* --------------------------------------------- fetch_youtube_videos

\* Most records a search answers with.
MaxVideos == 3

\* The analyzer while a collaborator is called on its own.
AnalyzerIdle ==
    /\ pc = "idle" /\ exc = "" /\ opportunity_message = <<>> /\ insights = <<>>
    /\ demand_score = 0 /\ video_count = 0 /\ total_views = 0 /\ article_count = 0
    /\ video_titles = NoneList /\ channel_names = NoneList /\ published_times = NoneList
    /\ video_views_list = NoneList /\ article_titles = NoneList
    /\ article_sources = NoneList /\ article_dates = NoneList
    /\ now = Today /\ hash_seed = 0 /\ prev = NoCall /\ other = NoFrame

\* The view-count texts of a search result.
ViewTexts == {"1,234 views", "No views", "5 watching", "1.2K views"}

\* video['viewCount']: the key absent, None, or a dict whose 'text' is absent
\* ("<absent>"), None ("<None>") or a text.
ViewCountValues ==
    {[shape |-> "absent", text |-> "<absent>"], [shape |-> "None", text |-> "<absent>"]}
       \cup {[shape |-> "dict", text |-> t] : t \in ViewTexts \cup {"<absent>", "<None>"}}

\* A record of the search result: its view count and its 'channel', a dict
\* or None.
RawVideos == [viewCount : ViewCountValues, channel : {"dict", "None"}]

\* What VideosSearch(...).result() does: it raises, or answers a dict without
\* 'result', or a dict with a list of records.
YoutubeResponses ==
    {[kind |-> "raises", result |-> <<>>], [kind |-> "no-result-key", result |-> <<>>]}
       \cup {[kind |-> "dict", result |-> r] :
                r \in UNION {[1..k -> RawVideos] : k \in 0..MaxVideos}}

\* video.get('viewCount', {}).get('text', '0 views')
ViewCountText(video) ==
    IF video.viewCount.shape = "absent" \/ video.viewCount.text = "<absent>"
    THEN "0 views" ELSE video.viewCount.text

\* text.replace(',', '').replace(' views', '')
WithoutCommasAndViews(text) ==
    CASE text = "1,234 views" -> "1234"
      [] text = "No views" -> "No"
      [] text = "1.2K views" -> "1.2K"
      [] text = "0 views" -> "0"
      [] OTHER -> text

\* text.strip().split(' ')[0]
FirstWord(text) == IF text = "5 watching" THEN "5" ELSE text

\* int(word) raises ValueError unless the word is a whole number.
IsWholeNumber(word) == word \in {"1234", "5", "0"}

IntOf(word) ==
    CASE word = "1234" -> 1234
      [] word = "5" -> 5
      [] OTHER -> 0

\* views as the inner try leaves it: the number, or 0 after a ValueError.
ParsedViews(video) ==
    LET word == FirstWord(WithoutCommasAndViews(ViewCountText(video)))
    IN  IF IsWholeNumber(word) THEN IntOf(word) ELSE 0

\* Line 47 calls .get on video['viewCount'] and .replace on its text before
\* the inner try begins, and line 63 calls .get on video['channel']: a None
\* at either place raises AttributeError into the outer except.
RaisesOutsideInnerTry(video) ==
    \/ video.viewCount.shape = "None"
    \/ video.viewCount.shape = "dict" /\ video.viewCount.text = "<None>"
    \/ video.channel = "None"

\* videos_search.result().get('result', [])
YtSearch ==
    /\ yt.pc = "call"
    /\ yt' = IF yt.response.kind = "raises"
             THEN [yt EXCEPT !.pc = "except"]
             ELSE [yt EXCEPT !.pc = "loop", !.results = yt.response.result, !.i = 1]
    /\ UNCHANGED <<analysis, news, ai, app>>

\* One turn of `for video in results`.
YtRecord ==
    /\ yt.pc = "loop" /\ yt.i <= Len(yt.results)
    /\ LET video == yt.results[yt.i]
       IN  yt' = IF RaisesOutsideInnerTry(video)
                 THEN [yt EXCEPT !.pc = "except"]
                 ELSE [yt EXCEPT !.i = yt.i + 1,
                                 !.videos = Append(yt.videos,
                                                   [views |-> ParsedViews(video),
                                                    channel_name |-> "A"])]
    /\ UNCHANGED <<analysis, news, ai, app>>

\* return videos
YtReturn ==
    /\ yt.pc = "loop" /\ yt.i > Len(yt.results)
    /\ yt' = [yt EXCEPT !.pc = "returned", !.ret = yt.videos]
    /\ UNCHANGED <<analysis, news, ai, app>>

\* except Exception: return []
YtExcept ==
    /\ yt.pc = "except"
    /\ yt' = [yt EXCEPT !.pc = "returned", !.ret = <<>>]
    /\ UNCHANGED <<analysis, news, ai, app>>

InitYoutube ==
    /\ AnalyzerIdle
    /\ yt \in {[pc |-> "call", response |-> r, results |-> <<>>, i |-> 0, videos |-> <<>>,
                ret |-> <<>>] : r \in YoutubeResponses}
    /\ news = NotCalled /\ ai = NotCalled /\ app = NotCalled

NextYoutube ==
    \/ YtSearch
    \/ YtRecord
    \/ YtReturn
    \/ YtExcept

SpecYoutube == InitYoutube /\ [][NextYoutube]_vars

\* ----------------------------------------------- fetch_google_news

\* Largest `limit` a call is made with.
MaxLimit == 3

\* Most articles one page of results holds.
MaxPage == 2

\* An article of a results page: a dict, or a value without .get.
RawArticles == {"dict", "None"}

\* What the results of one page may be.
Pages == UNION {[1..k -> RawArticles] : k \in 0..MaxPage}

\* len(results) < limit and page <= 3
MorePages(n, limit, page) == n < limit /\ page <= 3

\* results[:limit] without the cut at `limit`.
WholeList(results, limit) == results

\* results[:limit], for a limit that is not negative.
FirstArticles(results, limit) ==
    SubSeq(results, 1, IF limit < Len(results) THEN limit ELSE Len(results))

\* GoogleNews(lang='en', period=''): the constructor returns, which binds the
\* local googlenews, or raises.
NewsConstruct ==
    /\ news.pc = "call"
    /\ \E raises \in BOOLEAN :
          news' = IF raises THEN [news EXCEPT !.pc = "except"]
                  ELSE [news EXCEPT !.pc = "search", !.bound = TRUE]
    /\ UNCHANGED <<analysis, yt, ai, app>>

\* set_time_range, set_news_source, search and results(): one of them raises,
\* or results is the first page.
NewsSearch ==
    /\ news.pc = "search"
    /\ \/ news' = [news EXCEPT !.pc = "except"]
       \/ \E p \in Pages : news' = [news EXCEPT !.pc = "loop", !.results = p, !.page = 2]
    /\ UNCHANGED <<analysis, yt, ai, app>>

\* One turn of the while loop: getpage(page) raises, or its results are added.
NewsGetPage ==
    /\ news.pc = "loop" /\ MorePages(Len(news.results), news.limit, news.page)
    /\ \/ news' = [news EXCEPT !.pc = "except",
                               !.requested = Append(news.requested, news.page)]
       \/ \E p \in Pages :
             news' = [news EXCEPT !.results = news.results \o p,
                                  !.page = news.page + 1,
                                  !.requested = Append(news.requested, news.page)]
    /\ UNCHANGED <<analysis, yt, ai, app>>

\* for article in results[:limit]: article.get(...) raises on an article that
\* is no dict; otherwise the articles are returned.
NewsFormat ==
    /\ news.pc = "loop" /\ ~MorePages(Len(news.results), news.limit, news.page)
    /\ LET first == FirstArticles(news.results, news.limit)
       IN  news' = IF \E i \in 1..Len(first) : first[i] # "dict"
                   THEN [news EXCEPT !.pc = "except"]
                   ELSE [news EXCEPT !.pc = "finally", !.ret = first]
    /\ UNCHANGED <<analysis, yt, ai, app>>

\* except Exception: return []
NewsExcept ==
    /\ news.pc = "except"
    /\ news' = [news EXCEPT !.pc = "finally", !.ret = <<>>, !.failed = TRUE]
    /\ UNCHANGED <<analysis, yt, ai, app>>

\* NewsFinally without the test 'googlenews' in locals(): clear() is called
\* on a name the failed constructor never bound, which raises NameError.
NewsFinallyUnguarded ==
    /\ news.pc = "finally"
    /\ news' = IF news.bound THEN [news EXCEPT !.pc = "returned", !.cleared = TRUE]
               ELSE [news EXCEPT !.pc = "raised"]
    /\ UNCHANGED <<analysis, yt, ai, app>>

\* finally: if 'googlenews' in locals(): googlenews.clear(), which empties the
\* lists of the object and does not raise; then the pending return is made.
NewsFinally ==
    /\ news.pc = "finally"
    /\ news' = [news EXCEPT !.pc = "returned", !.cleared = news.bound]
    /\ UNCHANGED <<analysis, yt, ai, app>>

InitNewsFetch ==
    /\ AnalyzerIdle
    /\ news \in {[pc |-> "call", limit |-> l, bound |-> FALSE, results |-> <<>>, page |-> 0,
                  requested |-> <<>>, ret |-> <<>>, failed |-> FALSE, cleared |-> FALSE] :
                    l \in 0..MaxLimit}
    /\ yt = NotCalled /\ ai = NotCalled /\ app = NotCalled

NextNewsFetch ==
    \/ NewsConstruct
    \/ NewsSearch
    \/ NewsGetPage
    \/ NewsFormat
    \/ NewsExcept
    \/ NewsFinally

SpecNewsFetch == InitNewsFetch /\ [][NextNewsFetch]_vars

\* ----------------------------------------- generate_ai_recommendations

\* Most values the analysis data holds.
MaxItems == 2

\* The scalars a value of the analysis data is made of.
ScalarTypes == {"int", "np.int64", "np.float32", "set"}

\* A value of the analysis data: a scalar, or a list or a tuple of scalars of
\* one type.
DataValues == [shape : {"scalar", "list", "tuple"}, of : ScalarTypes]

\* convert_to_serializable on a scalar: numpy integers and floats become int
\* and float, everything else is returned as it is.
ConvertScalar(t) ==
    CASE t = "np.int64" -> "int"
      [] t = "np.float32" -> "float"
      [] OTHER -> t

\* convert_to_serializable on a value: it goes into dicts and lists, and
\* returns a tuple as it is.
ConvertToSerializable(v) ==
    IF v.shape = "tuple" THEN v ELSE [v EXCEPT !.of = ConvertScalar(v.of)]

\* Whether json.dumps accepts the value: it raises TypeError on a set and on
\* a numpy scalar, also inside a list or a tuple.
JsonSerializable(v) == v.of \in {"int", "float"}

\* serializable_data = convert_to_serializable(analysis_data)
AiConvert ==
    /\ ai.pc = "call"
    /\ ai' = [ai EXCEPT !.pc = "dumps",
                        !.serializable_data =
                            [i \in 1..Len(ai.analysis_data) |->
                                ConvertToSerializable(ai.analysis_data[i])]]
    /\ UNCHANGED <<analysis, yt, news, app>>

\* formatted_data = json.dumps(serializable_data, ...), outside any try.
AiDumps ==
    /\ ai.pc = "dumps"
    /\ ai' = IF \A i \in 1..Len(ai.serializable_data) :
                   JsonSerializable(ai.serializable_data[i])
             THEN [ai EXCEPT !.pc = "prompt"]
             ELSE [ai EXCEPT !.pc = "raised", !.exc = "TypeError"]
    /\ UNCHANGED <<analysis, yt, news, app>>

\* if language.lower() == "en": ... else: ..., outside any try.
AiPrompt ==
    /\ ai.pc = "prompt"
    /\ ai' = IF ai.language = "None"
             THEN [ai EXCEPT !.pc = "raised", !.exc = "AttributeError"]
             ELSE [ai EXCEPT !.pc = "request",
                             !.prompt = IF ai.language \in {"en", "EN"} THEN "en" ELSE "ar"]
    /\ UNCHANGED <<analysis, yt, news, app>>

\* The try block: the client or the request raises and the error text is
\* returned, or the content of the first choice is returned, which is a text
\* or None.
AiRequest ==
    /\ ai.pc = "request"
    /\ \E outcome \in {"error text", "text", "None"} :
          ai' = [ai EXCEPT !.pc = "returned", !.ret = outcome]
    /\ UNCHANGED <<analysis, yt, news, app>>

InitAi ==
    /\ AnalyzerIdle
    /\ ai \in {[pc |-> "call", analysis_data |-> d, language |-> l,
                serializable_data |-> <<>>, prompt |-> "", exc |-> "", ret |-> ""] :
                  d \in UNION {[1..k -> DataValues] : k \in 0..MaxItems},
                  l \in {"ar", "en", "EN", "None"}}
    /\ yt = NotCalled /\ news = NotCalled /\ app = NotCalled

NextAi ==
    \/ AiConvert
    \/ AiDumps
    \/ AiPrompt
    \/ AiRequest

SpecAi == InitAi /\ [][NextAi]_vars

\* ------------------------------------------- parse_youtube_published_time

\* app.py's parse_youtube_published_time beside the parse_published_time of
\* analyze_opportunity, both applied to the same texts at the same instant.
\* app is then [pc, now, texts, app_parsed, analyzer_parsed]: the texts given
\* and what each parser has made of them so far, text by text.

\* What a parser makes of a text: the datetime it returns, in minutes since
\* day 0, the None it returns, or the exception it raises.
ParsedAt(minute) == [kind |-> "datetime", minute |-> minute, raised |-> ""]

ParsedNone == [kind |-> "None", minute |-> 0, raised |-> ""]

ParseRaised(e) == [kind |-> "raised", minute |-> 0, raised |-> e]

\* AppTimedelta with the day tested before the hour.
AppTimedeltaDayFirst(num, units) ==
    IF "minute" \in units THEN num
    ELSE IF "day" \in units THEN 1440 * num
    ELSE IF "hour" \in units THEN 60 * num
    ELSE IF "week" \in units THEN 7 * 1440 * num
    ELSE IF "month" \in units THEN num * 30 * 1440
    ELSE IF "year" \in units THEN num * 365 * 1440
    ELSE -1

\* The timedelta that app.py's if/elif chain builds from num, in minutes;
\* -1 when the text contains none of the keywords and the chain falls
\* through to return None.
AppTimedelta(num, units) ==
    IF "minute" \in units THEN num
    ELSE IF "hour" \in units THEN 60 * num
    ELSE IF "day" \in units THEN 1440 * num
    ELSE IF "week" \in units THEN 7 * 1440 * num
    ELSE IF "month" \in units THEN num * 30 * 1440
    ELSE IF "year" \in units THEN num * 365 * 1440
    ELSE -1

\* parse_youtube_published_time(pt_str) called at day today: None for a
\* missing or empty text and for one without a number or without a unit;
\* current_date - timedelta(...) raises OverflowError before year 1.
ParseYoutubePublishedTime(pt, today) ==
    IF pt.none \/ pt.empty THEN ParsedNone
    ELSE IF pt.nums = <<>> THEN ParsedNone
    ELSE LET delta == AppTimedelta(Head(pt.nums), pt.units)
         IN  IF delta = -1 THEN ParsedNone
             ELSE IF delta > (today - 1) * 1440 THEN ParseRaised("OverflowError")
             ELSE ParsedAt(today * 1440 - delta)

\* parse_published_time(pt_str) of analyze_opportunity with current_date on
\* day today.
AnalyzerParsed(pt, today) ==
    IF ParseRaises(pt, today) # "" THEN ParseRaised(ParseRaises(pt, today))
    ELSE IF ParsePublishedTime(pt) = -1 THEN ParsedNone
    ELSE ParsedAt(today * 1440 - ParsePublishedTime(pt))

\* Most texts given to the parsers.
MaxTexts == 2

\* The recency texts of the analysis, "", and texts with two unit keywords:
\* "2 minutes 1 hour", "1 week of month", "1 month of year", "4 days a week",
\* "90 minutes ago".
ParserTexts ==
    RecencyValues \cup {EmptyText,
                        Text(<<2, 1>>, {"minute", "hour"}),
                        Text(<<1>>, {"week", "month"}),
                        Text(<<1>>, {"month", "year"}),
                        Text(<<4>>, {"day", "week"}),
                        Text(<<90>>, {"minute"})}

AppParse ==
    /\ app.pc = "parse"
    /\ Len(app.app_parsed) < Len(app.texts)
    /\ app' = [app EXCEPT !.app_parsed =
                 Append(@, ParseYoutubePublishedTime(app.texts[Len(@) + 1], app.now))]
    /\ UNCHANGED <<analysis, yt, news, ai>>

AnalyzerParse ==
    /\ app.pc = "parse"
    /\ Len(app.analyzer_parsed) < Len(app.texts)
    /\ app' = [app EXCEPT !.analyzer_parsed =
                 Append(@, AnalyzerParsed(app.texts[Len(@) + 1], app.now))]
    /\ UNCHANGED <<analysis, yt, news, ai>>

InitParsers ==
    /\ AnalyzerIdle
    /\ app \in {[pc |-> "parse", now |-> n, texts |-> t,
                 app_parsed |-> <<>>, analyzer_parsed |-> <<>>] :
                   n \in NowValues, t \in UNION {[1..k -> ParserTexts] : k \in 0..MaxTexts}}
    /\ yt = NotCalled /\ news = NotCalled /\ ai = NotCalled

NextParsers ==
    \/ AppParse
    \/ AnalyzerParse

SpecParsers == InitParsers /\ [][NextParsers]_vars

\* ---------------------------------------------------------------- app.main

\* One run of main (src/app.py): the keyword check, the fetches, the
\* validation of what they returned, the call of analyze_opportunity and its
\* result. app is then [pc, keyword, news_enabled, demand_score, videos_data,
\* news_data, returned, stop]: keyword tells whether a keyword was entered,
\* returned is the set of fetches that have returned, stop the kind of message
\* st.stop() followed ("" while the run has not stopped). The fetches are
\* taken by what they return; the analysis is the stages of
\* analyze_opportunity above.

\* Most videos and most articles a fetch returns.
MaxFetched == 6

MaxNews == 2

\* What fetch_google_trends returns: 0.0 for no data or an error, or the mean
\* interest.
AppDemandValues == {0, 40, 80}

\* The i-th record fetch_youtube_videos returns.
VideoRecord(i) ==
    [title |-> IF i % 2 = 0 THEN Title(<<"python", "great">>) ELSE Title(<<"bad", "java">>),
     views |-> 2000 * i,
     published_time |-> IF i % 2 = 0 THEN Text(<<3>>, {"day"}) ELSE Text(<<1>>, {"month"}),
     channel_name |-> IF i % 3 = 0 THEN "B" ELSE "A"]

\* n records; with missing, the last has no 'publishedTime' and so a
\* published_time of None.
VideoRecords(n, missing) ==
    [i \in 1..n |-> IF missing /\ i = n
                    THEN [VideoRecord(i) EXCEPT !.published_time = NoneText]
                    ELSE VideoRecord(i)]

\* The i-th record fetch_google_news returns.
NewsRecord(i) ==
    [title |-> Title(<<"python", "great">>),
     source |-> IF i % 2 = 0 THEN "B" ELSE "A",
     date |-> Date("naive", Today - i)]

NewsRecords(n) == [i \in 1..n |-> NewsRecord(i)]

RECURSIVE SumViews(_)
\* df_videos['views'].sum()
SumViews(videos) ==
    IF videos = <<>> THEN 0 ELSE Head(videos).views + SumViews(Tail(videos))

\* not videos_data or len(videos_data) < 5, with at least four videos taken
\* for enough.
NotEnoughVideosBelowFour(videos) == Len(videos) = 0 \/ Len(videos) < 4

\* not videos_data or len(videos_data) < 5
NotEnoughVideos(videos) == Len(videos) = 0 \/ Len(videos) < 5

\* if not keyword: st.info(...); st.stop()
AppKeyword ==
    /\ app.pc = "keyword"
    /\ IF app.keyword
       THEN app' = [app EXCEPT !.pc = "trends"]
       ELSE app' = [app EXCEPT !.pc = "stopped", !.stop = "info"]
    /\ UNCHANGED <<analysis, yt, news, ai>>

\* demand_score = fetch_google_trends(...)
AppFetchTrends ==
    /\ app.pc = "trends"
    /\ \E d \in AppDemandValues :
          app' = [app EXCEPT !.pc = "youtube", !.demand_score = d,
                             !.returned = @ \cup {"trends"}]
    /\ UNCHANGED <<analysis, yt, news, ai>>

\* videos_data = fetch_youtube_videos(...)
AppFetchYoutube ==
    /\ app.pc = "youtube"
    /\ \E n \in 0..MaxFetched : \E missing \in BOOLEAN :
          app' = [app EXCEPT !.pc = "news", !.videos_data = VideoRecords(n, missing),
                             !.returned = @ \cup {"youtube"}]
    /\ UNCHANGED <<analysis, yt, news, ai>>

\* if news_enabled: news_data = fetch_google_news(...)
AppFetchNews ==
    /\ app.pc = "news"
    /\ IF app.news_enabled
       THEN \E n \in 0..MaxNews :
               app' = [app EXCEPT !.pc = "validate_demand", !.news_data = NewsRecords(n),
                                  !.returned = @ \cup {"news"}]
       ELSE app' = [app EXCEPT !.pc = "validate_demand"]
    /\ UNCHANGED <<analysis, yt, news, ai>>

\* if demand_score == 0: st.error(...); st.stop()
AppValidateDemand ==
    /\ app.pc = "validate_demand"
    /\ IF app.demand_score = 0
       THEN app' = [app EXCEPT !.pc = "stopped", !.stop = "error"]
       ELSE app' = [app EXCEPT !.pc = "validate_videos"]
    /\ UNCHANGED <<analysis, yt, news, ai>>

\* if not videos_data or len(videos_data) < 5: st.error(...); st.stop()
AppValidateVideos ==
    /\ app.pc = "validate_videos"
    /\ IF NotEnoughVideos(app.videos_data)
       THEN app' = [app EXCEPT !.pc = "stopped", !.stop = "error"]
       ELSE app' = [app EXCEPT !.pc = "prepare"]
    /\ UNCHANGED <<analysis, yt, news, ai>>

\* The warning for no articles does not stop the run; the lists are prepared
\* and analyze_opportunity is called: the article lists stay [] and
\* article_count 0 unless news is enabled and articles were returned.
AppAnalyze ==
    /\ app.pc = "prepare"
    /\ pc = "idle"
    /\ LET videos == app.videos_data
           articles == IF app.news_enabled /\ app.news_data # <<>> THEN app.news_data ELSE <<>>
       IN  /\ demand_score' = app.demand_score
           /\ video_count' = Len(videos)
           /\ total_views' = SumViews(videos)
           /\ video_titles' = List([i \in 1..Len(videos) |-> videos[i].title])
           /\ channel_names' = List([i \in 1..Len(videos) |-> videos[i].channel_name])
           /\ published_times' = List([i \in 1..Len(videos) |-> videos[i].published_time])
           /\ video_views_list' = List([i \in 1..Len(videos) |-> videos[i].views])
           /\ article_count' = Len(articles)
           /\ article_titles' = List([i \in 1..Len(articles) |-> articles[i].title])
           /\ article_sources' = List([i \in 1..Len(articles) |-> articles[i].source])
           /\ article_dates' = List([i \in 1..Len(articles) |-> articles[i].date])
    /\ pc' = "basic"
    /\ app' = [app EXCEPT !.pc = "analysis"]
    /\ UNCHANGED <<now, exc, opportunity_message, insights, process, yt, news, ai>>

\* opportunity_message = analysis_results['opportunity_message'] and the
\* display that follows.
AppResults ==
    /\ app.pc = "analysis"
    /\ pc = "returned"
    /\ app' = [app EXCEPT !.pc = "displayed"]
    /\ UNCHANGED <<analysis, yt, news, ai>>

\* An exception of analyze_opportunity ends the run.
AppRaised ==
    /\ app.pc = "analysis"
    /\ pc = "raised"
    /\ app' = [app EXCEPT !.pc = "failed"]
    /\ UNCHANGED <<analysis, yt, news, ai>>

InitApp ==
    /\ AnalyzerIdle
    /\ app \in {[pc |-> "keyword", keyword |-> k, news_enabled |-> e, demand_score |-> 0,
                 videos_data |-> <<>>, news_data |-> <<>>, returned |-> {}, stop |-> ""] :
                   k \in BOOLEAN, e \in BOOLEAN}
    /\ yt = NotCalled /\ news = NotCalled /\ ai = NotCalled

NextApp ==
    \/ AppKeyword
    \/ AppFetchTrends
    \/ AppFetchYoutube
    \/ AppFetchNews
    \/ AppValidateDemand
    \/ AppValidateVideos
    \/ AppAnalyze
    \/ Stage1
    \/ Stage2
    \/ Stage3
    \/ Stage4
    \/ Stage5
    \/ Stage6
    \/ Stage7
    \/ Stage8
    \/ Stage9
    \/ Stage10
    \/ AppResults
    \/ AppRaised

SpecApp == InitApp /\ [][NextApp]_vars

\* --------------------------------------------------------- properties

Returned == pc = "returned"

HasFragment(tag) == \E i \in 1..Len(opportunity_message) : opportunity_message[i].tag = tag

Fragments(tag) == {i \in 1..Len(opportunity_message) : opportunity_message[i].tag = tag}

Classified == pc \notin {"basic", "decision"}

C1_Labels == {"No Data", "Golden Opportunity", "Crowded Market", "No Opportunity",
              "Moderate Opportunity"}

C1_Rule1 == demand_score = 0 /\ video_count + article_count = 0

C1_Rule2 ==
    /\ demand_score > 70
    /\ video_count + article_count <= 15
    /\ total_views < 2000000
    /\ (video_count > 0 => total_views < 100000 * video_count)

C1_Rule3 ==
    /\ demand_score > 70
    /\ \/ video_count + article_count > 30
       \/ total_views > 10000000
       \/ (video_count > 0 /\ total_views > 500000 * video_count)

C1_Rule4 == demand_score < 30

\* C1: once the decision stage has run, opportunity_type is one of the five
\* labels and it is the label of the first satisfied rule of the ordered table
\* (1) no data, (2) golden, (3) crowded, (4) low demand, (5) otherwise; the
\* message starts with that category's template.
C1_FirstSatisfiedRule ==
    Classified =>
       /\ Has(insights, "opportunity_type")
       /\ insights["opportunity_type"] \in C1_Labels
       /\ (insights["opportunity_type"] = "No Data") <=> C1_Rule1
       /\ (insights["opportunity_type"] = "Golden Opportunity") <=> (~C1_Rule1 /\ C1_Rule2)
       /\ (insights["opportunity_type"] = "Crowded Market")
             <=> (~C1_Rule1 /\ ~C1_Rule2 /\ C1_Rule3)
       /\ (insights["opportunity_type"] = "No Opportunity")
             <=> (~C1_Rule1 /\ ~C1_Rule2 /\ ~C1_Rule3 /\ C1_Rule4)
       /\ (insights["opportunity_type"] = "Moderate Opportunity")
             <=> (~C1_Rule1 /\ ~C1_Rule2 /\ ~C1_Rule3 /\ ~C1_Rule4)
       /\ opportunity_message[1].tag = insights["opportunity_type"]

\* A returned call in which two rules are satisfied (no data and low demand)
\* and the earlier one gave the label.
C1_Witness ==
    /\ Returned
    /\ C1_Rule1 /\ C1_Rule4
    /\ insights["opportunity_type"] = "No Data"

\* C2: the call is total: no exception propagates to the caller, whatever the
\* lists hold (a missing title or recency text included).
C2_NoExceptionPropagates == pc # "raised"

C3_TitleTags == {"title-repetition"}

C3_ChannelTags == {"channels-few", "channels-single"}

C3_SentimentTags == {"sentiment-positive", "sentiment-negative", "sentiment-neutral"}

C3_NoFragmentOf(tags) == \A i \in 1..Len(opportunity_message) : opportunity_message[i].tag \notin tags

C3_Is(k, v) == Has(insights, k) /\ insights[k] = v

\* C3: in a returned result, a stage whose list argument is None or empty has
\* appended no fragment and has set its insight fields to the neutral defaults:
\* titles, channel names, recency texts, both title lists, article sources,
\* article dates.
C3_AbsentListDefaults ==
    Returned =>
       /\ ~Truthy(video_titles) =>
             /\ C3_Is("most_frequent_keywords", <<>>)
             /\ C3_Is("title_repetition_detected", FALSE)
             /\ C3_NoFragmentOf(C3_TitleTags)
       /\ ~Truthy(channel_names) =>
             /\ C3_Is("num_unique_channels", 0)
             /\ C3_Is("channel_monopolization_warning", FALSE)
             /\ C3_NoFragmentOf(C3_ChannelTags)
       /\ ~Truthy(published_times) =>
             /\ C3_Is("recent_videos_30_days_count", 0)
             /\ Has(insights, "recent_videos_30_days_percentage")
             /\ IsZero(insights["recent_videos_30_days_percentage"])
             /\ C3_Is("high_recent_activity", FALSE)
             /\ C3_NoFragmentOf({"recent-activity"})
       /\ (~Truthy(video_titles) /\ ~Truthy(article_titles)) =>
             /\ C3_Is("sentiment_analysis", <<>>)
             /\ C3_Is("overall_sentiment", "N/A")
             /\ C3_NoFragmentOf(C3_SentimentTags)
       /\ ~Truthy(article_sources) =>
             /\ C3_Is("news_sources_count", 0)
             /\ C3_Is("news_sources", <<>>)
             /\ C3_NoFragmentOf({"few-sources"})
       /\ ~Truthy(article_dates) =>
             /\ C3_Is("recent_articles_30_days", 0)
             /\ C3_Is("recent_articles_percentage", 0)
             /\ C3_NoFragmentOf({"hot-news"})

C4_Keys == {"average_views_per_video", "demand_score", "video_count", "total_views",
            "median_views", "article_count", "total_content_count", "video_percentage",
            "article_percentage", "content_diversity", "opportunity_type",
            "low_engagement_warning", "most_frequent_keywords", "title_repetition_detected",
            "num_unique_channels", "channel_monopolization_warning",
            "recent_videos_30_days_count", "recent_videos_30_days_percentage",
            "high_recent_activity", "sentiment_analysis", "overall_sentiment",
            "news_sources_count", "news_sources", "source_diversity_ratio",
            "recent_articles_30_days", "recent_articles_percentage"}

\* C4: every returned insights mapping has the same keys: each field of
\* stages 1-10 is present, a flag whose condition does not hold being False
\* and not missing.
C4_SameKeys == Returned => C4_Keys \subseteq DOMAIN insights

\* C5: in a returned result a ratio whose denominator is zero is 0: the average
\* views without videos, both percentages without content, the recent-video
\* percentage without videos, the source-diversity ratio and the recent-article
\* percentage without articles.
C5_ZeroDenominatorIsZero ==
    Returned =>
       /\ video_count = 0 => C3_Is("average_views_per_video", 0)
       /\ video_count + article_count = 0 =>
             C3_Is("video_percentage", 0) /\ C3_Is("article_percentage", 0)
       /\ video_count = 0 =>
             /\ Has(insights, "recent_videos_30_days_percentage")
             /\ IsZero(insights["recent_videos_30_days_percentage"])
       /\ article_count = 0 =>
             /\ C3_Is("source_diversity_ratio", 0)
             /\ C3_Is("recent_articles_percentage", 0)

\* The k-th smallest element of a list, by counting.
C6_Kth(items, k) ==
    CHOOSE v \in {items[i] : i \in 1..Len(items)} :
        /\ Cardinality({i \in 1..Len(items) : items[i] < v}) < k
        /\ Cardinality({i \in 1..Len(items) : items[i] <= v}) >= k

C6_Median(items) ==
    LET n == Len(items)
    IN  IF n % 2 = 1 THEN C6_Kth(items, (n + 1) \div 2)
        ELSE (C6_Kth(items, n \div 2) + C6_Kth(items, n \div 2 + 1)) \div 2

\* C6: median_views is 0 when the views list is None or empty, and otherwise
\* the median of the list (the middle element of the sorted values, the mean of
\* the two middle ones for an even length) as an integer, its fraction dropped.
C6_MedianViews ==
    pc # "basic" =>
       /\ Has(insights, "median_views")
       /\ (video_views_list.none \/ video_views_list.items = <<>>) =>
             insights["median_views"] = 0
       /\ (~video_views_list.none /\ video_views_list.items # <<>>) =>
             insights["median_views"] = C6_Median(video_views_list.items)

\* A returned call whose views list has an even length, is not sorted, and has
\* two middle values with an odd sum.
C6_Witness ==
    /\ Returned
    /\ ~video_views_list.none
    /\ Len(video_views_list.items) = 2
    /\ video_views_list.items[1] > video_views_list.items[2]
    /\ (video_views_list.items[1] + video_views_list.items[2]) % 2 = 1
    /\ insights["median_views"] > 0

\* C7: with content, the two reported percentages (tenths of a percent) sum to
\* 100.0 within 0.1; without content both are 0.
C7_PercentagesSum ==
    pc # "basic" =>
       /\ video_count + article_count > 0 =>
             /\ insights["video_percentage"] + insights["article_percentage"] >= 999
             /\ insights["video_percentage"] + insights["article_percentage"] <= 1001
       /\ video_count + article_count = 0 =>
             /\ insights["video_percentage"] = 0
             /\ insights["article_percentage"] = 0

\* A returned call whose video share is not a whole number of tenths, so that
\* both percentages were rounded.
C7_Witness ==
    /\ Returned
    /\ video_count > 0 /\ article_count > 0
    /\ (1000 * video_count) % (video_count + article_count) # 0
    /\ insights["video_percentage"] + insights["article_percentage"] = 1000

C8_Tokens == {"python", "java", "great", "bad", "the", "go"}

\* The number of titles that contain the token.
C8_TitlesWith(w) ==
    Cardinality({i \in 1..Len(video_titles.items) :
                   \E j \in 1..Len(video_titles.items[i].words) :
                      Lower(video_titles.items[i].words[j]) = w})

\* C8, on the calls where the title stage runs with one title per video:
\* title_repetition_detected is True iff some token that is no stopword and is
\* longer than 2 appears in at least ceil(0.6 * video_count) of the titles
\* (counting titles, not occurrences); the fragment names at most 3 tokens.
C8_RepetitionCountsTitles ==
    (Returned /\ Truthy(video_titles) /\ video_count > 1
       /\ Len(video_titles.items) = video_count) =>
       /\ insights["title_repetition_detected"]
             <=> \E w \in C8_Tokens :
                    /\ ~IsStopword(w) /\ WordLen(w) > 2
                    /\ 10 * C8_TitlesWith(w) >= 6 * video_count
       /\ \A i \in Fragments("title-repetition") : Len(opportunity_message[i].words) <= 3

C9_U == Cardinality({channel_names.items[i] : i \in 1..Len(channel_names.items)})

C9_Single == Truthy(channel_names) /\ C9_U = 1 /\ video_count > 1

C9_Few == Truthy(channel_names) /\ 1 < C9_U /\ 2 * C9_U < video_count

\* C9: in a returned result channel_monopolization_warning is True iff channel
\* names are present and either U = 1 with video_count > 1 or 1 < U <
\* video_count / 2; the single-channel fragment is appended exactly in the first
\* case, the fragment naming U and video_count exactly in the second, and the
\* two cases exclude each other.
C9_ChannelMonopolization ==
    Returned =>
       /\ insights["channel_monopolization_warning"] <=> (C9_Single \/ C9_Few)
       /\ ~(C9_Single /\ C9_Few)
       /\ Cardinality(Fragments("channels-single")) = (IF C9_Single THEN 1 ELSE 0)
       /\ Cardinality(Fragments("channels-few")) = (IF C9_Few THEN 1 ELSE 0)
       /\ \A i \in Fragments("channels-few") :
             opportunity_message[i].nums = <<C9_U, video_count>>

\* A returned call with one channel name per video, two distinct channels
\* among more than four videos: the moderate warning.
C9_Witness ==
    /\ Returned
    /\ Truthy(channel_names)
    /\ Len(channel_names.items) = video_count
    /\ C9_U = 2
    /\ insights["channel_monopolization_warning"]
    /\ HasFragment("channels-few")

C10_Units == {"minute", "hour", "day", "week", "month", "year"}

C10_HasNumberAndUnit(pt) == pt.nums # <<>> /\ pt.units \cap C10_Units # {}

\* The age the text resolves to, in minutes.
C10_Age(pt) == Head(pt.nums) * UnitMinutes(UnitOf(pt.units))

C10_StageRan == Returned /\ Truthy(published_times) /\ video_count > 0

C13_LowDemand ==
    Classified =>
       /\ (0 < demand_score /\ demand_score < 30) =>
             insights["opportunity_type"] = "No Opportunity"
       /\ demand_score = 0 =>
             /\ (insights["opportunity_type"] = "No Opportunity")
                   <=> (video_count + article_count > 0)
             /\ (insights["opportunity_type"] = "No Data")
                   <=> (video_count + article_count = 0)

\* A returned call with low but positive demand on a crowded, heavily viewed
\* supply, classified "No Opportunity".
C13_Witness ==
    /\ Returned
    /\ 0 < demand_score /\ demand_score < 30
    /\ video_count + article_count > 30
    /\ total_views > 10000000
    /\ insights["opportunity_type"] = "No Opportunity"
    /\ opportunity_message[1].tag = "No Opportunity"

C14_Stage(tag) ==
    CASE tag \in C1_Labels -> 2
      [] tag \in {"diversity-video", "diversity-article", "diversity-balanced"} -> 3
      [] tag \in {"low-engagement-caveat", "low-engagement-warning"} -> 4
      [] tag = "title-repetition" -> 5
      [] tag \in {"channels-few", "channels-single"} -> 6
      [] tag = "recent-activity" -> 7
      [] tag \in {"sentiment-positive", "sentiment-negative", "sentiment-neutral"} -> 8
      [] tag = "few-sources" -> 9
      [] tag = "hot-news" -> 10
      [] OTHER -> 0

\* The number of stages that have run when the call is at `p`.
C14_StagesRun(p) ==
    CASE p = "basic" -> 0
      [] p = "decision" -> 1
      [] p = "diversity" -> 2
      [] p = "engagement" -> 3
      [] p = "titles" -> 4
      [] p = "channels" -> 5
      [] p = "recency" -> 6
      [] p = "sentiment" -> 7
      [] p = "sources" -> 8
      [] p = "dates" -> 9
      [] OTHER -> 10

\* C14: at every moment of a call the message is the category's template
\* followed by fragments of stages that have run, each beginning with a blank
\* line, in the stage order diversity, low engagement, title repetition,
\* channel concentration, recent video activity, sentiment, news source
\* diversity, recent news articles: no stage has two fragments and none
\* stands before a fragment of an earlier stage.
C14_FixedOrder ==
    /\ pc \in {"basic", "decision"} => opportunity_message = <<>>
    /\ Classified =>
          /\ Len(opportunity_message) >= 1
          /\ opportunity_message[1].tag = insights["opportunity_type"]
          /\ ~StartsWithBlankLine(opportunity_message[1].tag)
    /\ \A i \in 1..Len(opportunity_message) :
          /\ C14_Stage(opportunity_message[i].tag) >= 2
          /\ pc # "raised" => C14_Stage(opportunity_message[i].tag) <= C14_StagesRun(pc)
          /\ i > 1 => /\ StartsWithBlankLine(opportunity_message[i].tag)
                      /\ C14_Stage(opportunity_message[i - 1].tag)
                            < C14_Stage(opportunity_message[i].tag)

\* A returned call whose message holds the template and a fragment of each of
\* the eight later stages.
C14_Witness ==
    /\ Returned
    /\ Len(opportunity_message) = 9
    /\ {C14_Stage(opportunity_message[i].tag) : i \in 1..9} = 2..10

\* C20: content_diversity is "No content" exactly when the total content count
\* is 0; otherwise it is "Balanced" exactly when the videos' share of the
\* total is within 40% and 60%, both included, "Video-dominated" exactly when
\* it is above 60% and "Article-dominated" exactly when it is below 40%.
C20_DiversityLabel ==
    pc # "basic" =>
       LET tc == video_count + article_count
           label == insights["content_diversity"]
       IN  /\ Has(insights, "content_diversity")
           /\ label \in {"No content", "Balanced", "Video-dominated", "Article-dominated"}
           /\ (label = "No content") <=> (tc = 0)
           /\ (label = "Balanced")
                 <=> (tc > 0 /\ 100 * video_count >= 40 * tc /\ 100 * video_count <= 60 * tc)
           /\ (label = "Video-dominated") <=> (tc > 0 /\ 100 * video_count > 60 * tc)
           /\ (label = "Article-dominated") <=> (tc > 0 /\ 100 * video_count < 40 * tc)

\* A returned call whose videos are exactly 60% of the content (3 videos and
\* 2 articles), labelled "Balanced".
C20_Witness ==
    /\ Returned
    /\ video_count > 0
    /\ 100 * video_count = 60 * (video_count + article_count)
    /\ insights["content_diversity"] = "Balanced"

C11_SameResultTwice ==
    (Finished /\ prev.done /\ prev.now = now) =>
       /\ pc = prev.pc
       /\ exc = prev.exc
       /\ opportunity_message = prev.opportunity_message
       /\ insights = prev.insights

\* The same for two calls in one interpreter.
C11_SameResultTwiceInOneProcess ==
    (Finished /\ prev.done /\ prev.now = now /\ prev.hash_seed = hash_seed) =>
       /\ pc = prev.pc
       /\ exc = prev.exc
       /\ opportunity_message = prev.opportunity_message
       /\ insights = prev.insights

\* C12: the result does not depend on the wall clock: a call that follows a
\* call with the same arguments in the same interpreter, at whatever later
\* instant, returns the same recent-activity counts and flags and the same
\* message.
C12_ResultIndependentOfClock ==
    (Returned /\ prev.done /\ prev.pc = "returned" /\ prev.hash_seed = hash_seed) =>
       /\ opportunity_message = prev.opportunity_message
       /\ \A k \in {"recent_videos_30_days_count", "recent_videos_30_days_percentage",
                    "high_recent_activity", "recent_articles_30_days",
                    "recent_articles_percentage"} :
             /\ Has(insights, k) <=> Has(prev.insights, k)
             /\ Has(insights, k) => insights[k] = prev.insights[k]

\* C15: while two threads run the same call at once, each call that has ended
\* has ended as the call did that ran alone before them, at the same instant
\* and in the same interpreter.
C15_SameAsAlone ==
    (other.live /\ prev.done /\ prev.now = now /\ prev.hash_seed = hash_seed) =>
       /\ Finished =>
             /\ pc = prev.pc /\ exc = prev.exc
             /\ opportunity_message = prev.opportunity_message
             /\ insights = prev.insights
       /\ other.pc \in {"returned", "raised"} =>
             /\ other.pc = prev.pc /\ other.exc = prev.exc
             /\ other.opportunity_message = prev.opportunity_message
             /\ other.insights = prev.insights

\* One thread's call has returned, with a message of all nine pieces, while
\* the call of the other thread, begun before, is in the middle of its body.
C15_Witness ==
    /\ other.live /\ prev.done /\ prev.now = now
    /\ other.pc = "returned"
    /\ Len(other.opportunity_message) = 9
    /\ pc = "sentiment"
    /\ Len(opportunity_message) >= 5

\* C17 (never raises, a list on every outcome): every call ends by returning
\* a list whose records carry whole-number views, and the list is empty
\* after a failed search.
C17_ReturnsList ==
    /\ yt.pc \in {"call", "loop", "except", "returned"}
    /\ yt.pc = "returned" =>
          /\ \A i \in 1..Len(yt.ret) : yt.ret[i].views \in Nat
          /\ yt.response.kind # "dict" => yt.ret = <<>>

C17_Unparsable(video) ==
    ~IsWholeNumber(FirstWord(WithoutCommasAndViews(
        IF video.viewCount.shape = "dict" /\ video.viewCount.text \notin {"<absent>", "<None>"}
        THEN video.viewCount.text ELSE "0 views")))
       \/ video.viewCount.shape = "None"
       \/ video.viewCount.text = "<None>"

\* C17: when the search answers a list of records whose channels are in
\* order, every record is returned, in order, with views 0 where its view
\* count cannot be read as a number: an unparsable view count drops no record.
C17_KeepsOtherRecords ==
    (/\ yt.pc = "returned"
     /\ yt.response.kind = "dict"
     /\ \A i \in 1..Len(yt.response.result) : yt.response.result[i].channel = "dict") =>
       /\ Len(yt.ret) = Len(yt.response.result)
       /\ \A i \in 1..Len(yt.ret) :
             C17_Unparsable(yt.response.result[i]) => yt.ret[i].views = 0

\* C18: a call of fetch_google_news never raises; it returns at most `limit`
\* records; after the first page it requests only page 2 and then page 3,
\* each only while fewer than `limit` results are collected, so at most two
\* further requests are made; after an exception it returns the empty list;
\* and the cleanup in finally leaves the return as it was.
C18_BoundedFetch ==
    /\ news.pc \in {"call", "search", "loop", "except", "finally", "returned"}
    /\ Len(news.requested) <= 2
    /\ \A i \in 1..Len(news.requested) : news.requested[i] = i + 1
    /\ news.pc = "loop" => news.page = Len(news.requested) + 2
    /\ Len(news.requested) > 0 => news.limit > 0
    /\ news.pc = "returned" =>
          /\ Len(news.ret) <= news.limit
          /\ news.failed => news.ret = <<>>
          /\ ~news.failed =>
                /\ \A i \in 1..Len(news.ret) : news.ret[i] = news.results[i]
                /\ Len(news.ret) = news.limit \/ Len(news.ret) = Len(news.results)
                /\ Len(news.requested) < 2 => Len(news.results) >= news.limit
          /\ news.cleared = news.bound

\* A call that requested pages 2 and 3, collected more results than `limit`
\* and returned exactly `limit` of them.
C18_Witness ==
    /\ news.pc = "returned"
    /\ ~news.failed
    /\ news.requested = <<2, 3>>
    /\ Len(news.results) > news.limit
    /\ Len(news.ret) = news.limit
    /\ news.limit > 0

\* A call whose constructor raised: the cleanup found no object to clear and
\* the empty list was returned.
C18_WitnessFailed ==
    /\ news.pc = "returned"
    /\ news.failed /\ ~news.bound
    /\ news.ret = <<>>

\* C19: a call of generate_ai_recommendations never raises and returns a
\* string, whatever the analysis data and the language are and whatever the
\* API does: a failure comes back as the text "Error generating AI
\* recommendations: ...".
C19_AlwaysReturnsString ==
    /\ ai.pc # "raised"
    /\ ai.pc = "returned" => ai.ret \in {"text", "error text"}

\* The same for analysis data that json.dumps accepts after the conversion,
\* a language that is a string and an API that answers with a text or fails.
C19_ReturnsStringOnSerializableData ==
    (/\ \A i \in 1..Len(ai.analysis_data) :
           JsonSerializable(ConvertToSerializable(ai.analysis_data[i]))
     /\ ai.language # "None") =>
       /\ ai.pc # "raised"
       /\ ai.pc = "returned" => ai.ret \in {"text", "error text", "None"}

C21_DiversityTags == {"diversity-video", "diversity-article", "diversity-balanced"}

\* C21: once the diversity stage has run the message holds at most one
\* diversity fragment: the video-dominated one exactly when the videos are
\* more than 80% of a positive total, the article-dominated one exactly when
\* the articles are, the balanced one exactly when the label is "Balanced";
\* the 80% is compared with the exact share, so 80.04% is above it.
C21_ExactShareThreshold ==
    pc \notin {"basic", "decision", "diversity"} =>
       LET tc == video_count + article_count
       IN  /\ Cardinality({i \in 1..Len(opportunity_message) :
                             opportunity_message[i].tag \in C21_DiversityTags}) <= 1
           /\ HasFragment("diversity-video") <=> (tc > 0 /\ 100 * video_count > 80 * tc)
           /\ HasFragment("diversity-article") <=> (tc > 0 /\ 100 * article_count > 80 * tc)
           /\ HasFragment("diversity-balanced")
                 <=> (tc > 0 /\ insights["content_diversity"] = "Balanced")

C22_Tags == {"low-engagement-caveat", "low-engagement-warning"}

\* median_views as np.median gives it: the middle value, or the mean of the
\* two middle values, of the sorted per-video views, doubled here; 0 without
\* a list or with an empty one.
C22_Median2 ==
    IF Truthy(video_views_list)
    THEN LET s == Sorted(video_views_list.items)
             n == Len(s)
         IN  IF n % 2 = 1 THEN 2 * s[(n + 1) \div 2] ELSE s[n \div 2] + s[n \div 2 + 1]
    ELSE 0

\* C22: once the engagement stage has run, low_engagement_warning is set and
\* one low-engagement fragment stands in the message exactly when demand_score
\* > 50 and 0 < median views < 20,000; the fragment is the caveat exactly when
\* the classification is "Golden Opportunity" and the standalone warning for
\* every other, with or without a diversity fragment before it.
C22_LowEngagementWording ==
    pc \notin {"basic", "decision", "diversity", "engagement"} =>
       LET low == demand_score > 50 /\ C22_Median2 > 0 /\ C22_Median2 < 40000
           golden == insights["opportunity_type"] = "Golden Opportunity"
       IN  /\ low <=> (Has(insights, "low_engagement_warning")
                        /\ insights["low_engagement_warning"] = TRUE)
           /\ low <=> (\E i \in 1..Len(opportunity_message) :
                          opportunity_message[i].tag \in C22_Tags)
           /\ Cardinality({i \in 1..Len(opportunity_message) :
                             opportunity_message[i].tag \in C22_Tags}) <= 1
           /\ HasFragment("low-engagement-caveat") <=> (low /\ golden)
           /\ HasFragment("low-engagement-warning") <=> (low /\ ~golden)

\* A returned call classified "Golden Opportunity" whose message holds the
\* video-dominated annotation and then the caveat.
C22_Witness ==
    /\ Returned
    /\ insights["opportunity_type"] = "Golden Opportunity"
    /\ HasFragment("diversity-video")
    /\ HasFragment("low-engagement-caveat")
    /\ C22_Median2 = 39999

C23_Count == insights["recent_videos_30_days_count"]

\* C23: for a call with recency texts and video_count > 0 that has passed the
\* recency stage, high_recent_activity is True and the recent-activity
\* fragment is in the message exactly when the count of recent videos is
\* more than a fifth of video_count; the count is at most the number of
\* recency texts; with as many texts as video_count the percentage is within
\* 0 and 100.
C23_HighRecentActivity ==
    (/\ pc \in {"sentiment", "sources", "dates", "returned"}
     /\ Truthy(published_times) /\ video_count > 0) =>
       /\ (insights["high_recent_activity"] = TRUE) <=> (5 * C23_Count > video_count)
       /\ HasFragment("recent-activity") <=> (5 * C23_Count > video_count)
       /\ Cardinality(Fragments("recent-activity")) <= 1
       /\ C23_Count >= 0 /\ C23_Count <= Len(published_times.items)
       /\ Len(published_times.items) = video_count =>
             LET p == insights["recent_videos_30_days_percentage"]
             IN  /\ p.den > 0
                 /\ 0 <= p.num /\ p.num <= 100 * p.den

\* A returned call with five videos and five recency texts of which one is
\* recent: exactly 20%, which is not high.
C23_Witness ==
    /\ Returned
    /\ Truthy(published_times)
    /\ video_count = 5 /\ Len(published_times.items) = 5
    /\ C23_Count = 1
    /\ insights["high_recent_activity"] = FALSE
    /\ ~HasFragment("recent-activity")
    /\ insights["recent_videos_30_days_percentage"] = Ratio(100, 5)

\* The video titles followed by the article titles, each list when present.
C24_Titles == AllTitles(video_titles, article_titles)

C24_SentimentTags == {"sentiment-positive", "sentiment-negative", "sentiment-neutral"}

C24_Number(class) ==
    Cardinality({i \in 1..Len(C24_Titles) : Sentiment(C24_Titles[i]) = class})

\* C24: for a call that has passed the sentiment stage, every combined title
\* is tallied once, as positive, negative or neutral, so the three tallies sum
\* to total_analyzed, the number of combined titles; overall_sentiment is
\* "Positive" exactly when the positive tally is above both others, "Negative"
\* exactly when the negative tally is, and "Neutral" otherwise, ties included;
\* the message holds exactly one sentiment fragment, that of the overall
\* sentiment, when there are titles, and none when there are not.
C24_SentimentTallies ==
    pc \in {"sources", "dates", "returned"} =>
       LET sa == insights["sentiment_analysis"]
           overall == insights["overall_sentiment"]
           frags == {i \in 1..Len(opportunity_message) :
                       opportunity_message[i].tag \in C24_SentimentTags}
       IN  IF C24_Titles # <<>>
           THEN /\ sa.positive_titles = C24_Number("positive")
                /\ sa.negative_titles = C24_Number("negative")
                /\ sa.neutral_titles = C24_Number("neutral")
                /\ sa.positive_titles + sa.negative_titles + sa.neutral_titles
                      = sa.total_analyzed
                /\ sa.total_analyzed = Len(C24_Titles)
                /\ (overall = "Positive") <=> (/\ sa.positive_titles > sa.negative_titles
                                               /\ sa.positive_titles > sa.neutral_titles)
                /\ (overall = "Negative") <=> (/\ sa.negative_titles > sa.positive_titles
                                               /\ sa.negative_titles > sa.neutral_titles)
                /\ overall \in {"Positive", "Negative", "Neutral"}
                /\ Cardinality(frags) = 1
                /\ HasFragment("sentiment-positive") <=> (overall = "Positive")
                /\ HasFragment("sentiment-negative") <=> (overall = "Negative")
                /\ HasFragment("sentiment-neutral") <=> (overall = "Neutral")
           ELSE /\ frags = {}
                /\ overall = "N/A"

\* A returned call with video and article titles whose positive and negative
\* tallies tie for the first place: the overall sentiment is "Neutral".
C24_Witness ==
    /\ Returned
    /\ Truthy(video_titles) /\ Truthy(article_titles)
    /\ insights["sentiment_analysis"].positive_titles
          = insights["sentiment_analysis"].negative_titles
    /\ insights["sentiment_analysis"].positive_titles
          > insights["sentiment_analysis"].neutral_titles
    /\ insights["overall_sentiment"] = "Neutral"
    /\ HasFragment("sentiment-neutral")

\* The distinct names among the article sources.
C25_Distinct == {article_sources.items[i] : i \in 1..Len(article_sources.items)}

\* C25: for a call given article sources that has passed the sources stage,
\* news_sources_count is the number of distinct source names and news_sources
\* holds each distinct name exactly once; the few-sources fragment is in the
\* message exactly when article_count is above 5 and the distinct names are
\* fewer than three tenths of article_count, on the unrounded ratio.
C25_Sources ==
    (pc \in {"dates", "returned"} /\ Truthy(article_sources)) =>
       LET listed == insights["news_sources"]
       IN  /\ insights["news_sources_count"] = Cardinality(C25_Distinct)
           /\ Len(listed) = Cardinality(C25_Distinct)
           /\ {listed[i] : i \in 1..Len(listed)} = C25_Distinct
           /\ \A i \in 1..Len(listed) : \A j \in 1..Len(listed) :
                 listed[i] = listed[j] => i = j
           /\ HasFragment("few-sources") <=>
                 (/\ article_count > 5
                  /\ 10 * Cardinality(C25_Distinct) < 3 * article_count)

\* A returned call whose sources repeat a name and are few for its articles,
\* and so carries the fragment.
C25_Witness ==
    /\ Returned
    /\ Truthy(article_sources)
    /\ Len(article_sources.items) > Cardinality(C25_Distinct)
    /\ Cardinality(C25_Distinct) = 2
    /\ article_count = 10
    /\ HasFragment("few-sources")

\* The article dates that parse and lie at most 30 days from the current
\* instant, before it or after it.
C26_Within30Days ==
    {i \in 1..Len(article_dates.items) :
        /\ article_dates.items[i].kind \in {"naive", "aware"}
        /\ now - article_dates.items[i].day <= 30
        /\ article_dates.items[i].day - now <= 30}

\* C26: for a returned call given article dates and articles,
\* recent_articles_30_days is the number of dates that parse and lie within
\* 30 days of the current instant in either direction,
\* recent_articles_percentage is that count over article_count, and the
\* hot-news fragment is in the message exactly when the percentage is above 50.
C26_RecentArticles ==
    (Returned /\ Truthy(article_dates) /\ article_count > 0) =>
       /\ insights["recent_articles_30_days"] = Cardinality(C26_Within30Days)
       /\ insights["recent_articles_percentage"]
             = RoundHalfEven(1000 * Cardinality(C26_Within30Days), article_count)
       /\ HasFragment("hot-news") <=>
             (100 * Cardinality(C26_Within30Days) > 50 * article_count)

\* The states of a call that has passed the title stage.
C27_PastTitles == pc \in {"channels", "recency", "sentiment", "sources", "dates", "returned"}

\* The lower-cased tokens of all the video titles.
C27_Tokens == AllWords(video_titles.items)

C27_Frequency(w) == Cardinality({i \in 1..Len(C27_Tokens) : C27_Tokens[i] = w})

\* The tokens that may be keywords: longer than 2 and no stopword.
C27_Candidates ==
    {C27_Tokens[i] : i \in {j \in 1..Len(C27_Tokens) :
                               WordLen(C27_Tokens[j]) > 2 /\ ~IsStopword(C27_Tokens[j])}}

\* most_frequent_keywords is a list of the most frequent candidates: at most
\* 5 entries and all the candidates when they are fewer, no word twice, by
\* non-increasing frequency, each a lower-cased candidate with its frequency
\* over all titles, and no candidate left out is more frequent than one listed.
C27_TopKeywords(mfk) ==
    /\ Len(mfk) <= 5
    /\ Len(mfk) = (IF Cardinality(C27_Candidates) < 5 THEN Cardinality(C27_Candidates) ELSE 5)
    /\ \A i \in 1..Len(mfk) :
          /\ mfk[i][1] \in C27_Candidates
          /\ mfk[i][1] = Lower(mfk[i][1])
          /\ mfk[i][2] = C27_Frequency(mfk[i][1])
          /\ \A j \in 1..Len(mfk) : (mfk[i][1] = mfk[j][1] => i = j)
          /\ \A j \in 1..Len(mfk) : (i < j => mfk[i][2] >= mfk[j][2])
          /\ \A w \in C27_Candidates :
                (\A j \in 1..Len(mfk) : mfk[j][1] # w) => C27_Frequency(w) <= mfk[i][2]

\* C27 as stated: the title stage runs exactly when titles are present and
\* there are more than one of them; most_frequent_keywords is then the top
\* keywords, and [] with title_repetition_detected False otherwise.
C27_RunsOnTitleCount ==
    C27_PastTitles =>
       IF Truthy(video_titles) /\ Len(video_titles.items) > 1
       THEN C27_TopKeywords(insights["most_frequent_keywords"])
       ELSE /\ insights["most_frequent_keywords"] = <<>>
            /\ insights["title_repetition_detected"] = FALSE

\* C27, amended: the title stage runs exactly when titles are present and
\* video_count is above 1, whatever the number of titles;
\* most_frequent_keywords is then the top keywords, and [] with
\* title_repetition_detected False otherwise.
C27_RunsOnVideoCount ==
    C27_PastTitles =>
       IF Truthy(video_titles) /\ video_count > 1
       THEN C27_TopKeywords(insights["most_frequent_keywords"])
       ELSE /\ insights["most_frequent_keywords"] = <<>>
            /\ insights["title_repetition_detected"] = FALSE

\* A returned call with more than five candidate keywords of different
\* frequencies: five are listed, the most frequent first.
C27_Witness ==
    /\ Returned
    /\ Truthy(video_titles) /\ video_count > 1
    /\ Cardinality(C27_Candidates) > 5
    /\ Len(insights["most_frequent_keywords"]) = 5
    /\ insights["most_frequent_keywords"][1][2] > insights["most_frequent_keywords"][5][2]

\* The texts that both parsers have been applied to.
C29_BothParsed ==
    {i \in 1..Len(app.texts) : i <= Len(app.app_parsed) /\ i <= Len(app.analyzer_parsed)}

\* C29: at the same instant the two parsers make the same of every text that
\* is neither missing nor empty: the same datetime, None from both, or the
\* same exception; a missing or empty text app.py's parser maps to None.
C29_ParsersAgree ==
    app.pc = "parse" =>
       /\ \A i \in C29_BothParsed :
             (~app.texts[i].none /\ ~app.texts[i].empty) =>
                app.app_parsed[i] = app.analyzer_parsed[i]
       /\ \A i \in 1..Len(app.app_parsed) :
             (app.texts[i].none \/ app.texts[i].empty) => app.app_parsed[i] = ParsedNone

\* Both parsers have parsed a text that names a day and an hour, and a missing
\* text: the first is some hours old for both, the second is None for app.py
\* and an AttributeError for the analysis.
C29_Witness ==
    /\ app.pc = "parse"
    /\ Len(app.texts) = 2 /\ C29_BothParsed = {1, 2}
    /\ app.texts[1].units = {"day", "hour"}
    /\ app.app_parsed[1] = ParsedAt(app.now * 1440 - 60)
    /\ app.analyzer_parsed[1] = ParsedAt(app.now * 1440 - 60)
    /\ app.texts[2].none
    /\ app.app_parsed[2] = ParsedNone
    /\ app.analyzer_parsed[2] = ParseRaised("AttributeError")

\* analyze_opportunity has been called in the run of main.
C28_Analysing == pc # "idle"

\* C28: in every run of main, analyze_opportunity is called only after every
\* enabled fetch has returned and only with a fetched demand score other than
\* 0 and at least 5 fetched videos; a run whose fetches returned a score of 0
\* or fewer than 5 videos stops with an error and without any analysis, and
\* no run stops for another reason once a keyword is entered, an empty news
\* result included; so no analysis of a run classifies as "No Data", and one
\* with no articles returned runs with article_count 0.
C28_AnalysisOnlyOnValidData ==
    /\ C28_Analysing =>
          /\ app.pc \in {"analysis", "displayed", "failed"}
          /\ {"trends", "youtube"} \subseteq app.returned
          /\ app.news_enabled => "news" \in app.returned
          /\ app.demand_score # 0 /\ demand_score = app.demand_score
          /\ Len(app.videos_data) >= 5 /\ video_count = Len(app.videos_data)
          /\ (~app.news_enabled \/ app.news_data = <<>>) =>
                (article_count = 0 /\ article_titles = List(<<>>)
                   /\ article_sources = List(<<>>) /\ article_dates = List(<<>>))
          /\ "opportunity_type" \in DOMAIN insights =>
                insights["opportunity_type"] # "No Data"
    /\ app.pc \in {"prepare", "analysis", "displayed", "failed"} =>
          (app.demand_score # 0 /\ Len(app.videos_data) >= 5)
    /\ app.pc = "stopped" =>
          /\ ~C28_Analysing
          /\ app.keyword =>
                /\ app.stop = "error"
                /\ {"trends", "youtube"} \subseteq app.returned
                /\ app.news_enabled => "news" \in app.returned
                /\ app.demand_score = 0 \/ Len(app.videos_data) < 5

\* A run with news enabled whose news fetch returned no article: the analysis
\* was called on five videos, returned, and its result is displayed.
C28_Witness ==
    /\ app.pc = "displayed"
    /\ app.news_enabled /\ app.news_data = <<>> /\ "news" \in app.returned
    /\ Len(app.videos_data) = 5
    /\ Returned
    /\ article_count = 0
    /\ insights["opportunity_type"] \in {"Golden Opportunity", "Moderate Opportunity"}

====
